---- MODULE Spec2Model ----
(***************************************************************************)
(* Encoding Converter (src/src/extension.ts): the conversion engine, the   *)
(* backup/undo manager and the batch orchestrator as a state machine over  *)
(* a small file system.                                                    *)
(*                                                                         *)
(* Text (file names, glob patterns) is a sequence of one-character         *)
(* strings; file content is a sequence of bytes (0..255); decoded text is  *)
(* a sequence of Unicode code points.                                      *)
(***************************************************************************)
EXTENDS Integers, Sequences, FiniteSets, TLC

None == "none"

Min(a, b) == IF a < b THEN a ELSE b

Max(a, b) == IF a < b THEN b ELSE a

(***************************************************************************)
(* Path strings                                                            *)
(***************************************************************************)

DigitChars == <<"0", "1", "2", "3", "4", "5", "6", "7", "8", "9">>

RECURSIVE ToStr(_)
\* `${counter}`: the decimal digits of a non-negative integer
ToStr(n) ==
    IF n < 10 THEN <<DigitChars[n + 1]>>
    ELSE ToStr(n \div 10) \o <<DigitChars[(n % 10) + 1]>>

\* uri.fsPath + '.bak'
BakPath(p) == p \o <<".", "b", "a", "k">>

\* uri.fsPath + `.bak.${counter}`
BakPathN(p, counter) == p \o <<".", "b", "a", "k", ".">> \o ToStr(counter)

\* String.prototype.toLowerCase on one character
LowerChar(c) ==
    CASE c = "A" -> "a"
      [] c = "B" -> "b"
      [] c = "K" -> "k"
      [] c = "O" -> "o"
      [] c = "T" -> "t"
      [] OTHER -> c

LowerStr(s) == [i \in DOMAIN s |-> LowerChar(s[i])]

\* the index of the last '.' of s, 0 when there is none
LastDot(s) ==
    LET dots == {i \in DOMAIN s : s[i] = "."}
    IN  IF dots = {} THEN 0 ELSE CHOOSE i \in dots : \A j \in dots : j <= i

\* path.extname: from the last '.' of the base name to its end; empty when
\* there is no '.' or the only '.' is the first character
extname(fileName) ==
    LET d == LastDot(fileName)
    IN  IF d <= 1 THEN <<>> ELSE SubSeq(fileName, d, Len(fileName))

(***************************************************************************)
(* The exclusion patterns: glob text rewritten to a regular expression     *)
(***************************************************************************)

RECURSIVE GlobToRegexSource(_)
\* pattern.replace(/\*/g, '.*').replace(/\?/g, '.')
GlobToRegexSource(pattern) ==
    IF pattern = <<>> THEN <<>>
    ELSE LET c == Head(pattern)
             rest == GlobToRegexSource(Tail(pattern))
         IN  CASE c = "*" -> <<".", "*">> \o rest
               [] c = "?" -> <<".">> \o rest
               [] OTHER -> <<c>> \o rest

RECURSIVE ParenDepthOk(_, _)
ParenDepthOk(src, depth) ==
    IF src = <<>> THEN depth = 0
    ELSE CASE Head(src) = "(" -> ParenDepthOk(Tail(src), depth + 1)
           [] Head(src) = ")" -> depth > 0 /\ ParenDepthOk(Tail(src), depth - 1)
           [] OTHER -> ParenDepthOk(Tail(src), depth)

\* new RegExp(source) throws a SyntaxError on an unterminated group; a '*'
\* with nothing to repeat cannot arise, every '*' of the source follows a '.'
RegExpThrows(src) == ~ParenDepthOk(src, 0)

RECURSIVE RegexTokens(_)
\* the compiled expression: one token per atom, [c: the character or "ANY",
\* star: whether a '*' follows]; only sources without groups are compiled
RegexTokens(src) ==
    IF src = <<>> THEN <<>>
    ELSE LET atom == IF Head(src) = "." THEN "ANY" ELSE Head(src)
             starred == Len(src) >= 2 /\ src[2] = "*"
         IN  <<[c |-> atom, star |-> starred]>>
                 \o RegexTokens(SubSeq(src, IF starred THEN 3 ELSE 2, Len(src)))

AtomMatches(tok, ch) == tok.c = "ANY" \/ tok.c = ch

RECURSIVE MatchHere(_, _, _, _)
\* the tokens from i on match a run of s that starts at position j
MatchHere(toks, i, s, j) ==
    IF i > Len(toks) THEN TRUE
    ELSE IF toks[i].star
         THEN \E k \in j..(Len(s) + 1) :
                  /\ \A m \in j..(k - 1) : AtomMatches(toks[i], s[m])
                  /\ MatchHere(toks, i + 1, s, k)
         ELSE /\ j <= Len(s)
              /\ AtomMatches(toks[i], s[j])
              /\ MatchHere(toks, i + 1, s, j + 1)

\* regex.test(fileName): the expression is not anchored
RegexTest(src, s) ==
    LET toks == RegexTokens(src)
    IN  \E j \in 1..(Len(s) + 1) : MatchHere(toks, 1, s, j)

binaryExtensions ==
    { <<".","e","x","e">>, <<".","d","l","l">>, <<".","s","o">>,
      <<".","d","y","l","i","b">>, <<".","b","i","n">>, <<".","o","b","j">>,
      <<".","o">>, <<".","a">>, <<".","l","i","b">>,
      <<".","j","p","g">>, <<".","j","p","e","g">>, <<".","p","n","g">>,
      <<".","g","i","f">>, <<".","b","m","p">>, <<".","t","i","f","f">>,
      <<".","i","c","o">>, <<".","w","e","b","p">>, <<".","m","p","3">>,
      <<".","m","p","4">>, <<".","a","v","i">>, <<".","m","o","v">>,
      <<".","w","m","v">>, <<".","f","l","v">>, <<".","m","k","v">>,
      <<".","w","a","v">>, <<".","o","g","g">>, <<".","z","i","p">>,
      <<".","r","a","r">>, <<".","7","z">>, <<".","t","a","r">>,
      <<".","g","z">>, <<".","b","z","2">>, <<".","x","z">>,
      <<".","l","z","m","a">>, <<".","p","d","f">>, <<".","d","o","c">>,
      <<".","d","o","c","x">>, <<".","p","p","t">>, <<".","p","p","t","x">>,
      <<".","x","l","s">>, <<".","x","l","s","x">> }

RECURSIVE PatternScan(_, _)
\* the loop over config.excludePatterns: "throw" when a pattern does not
\* compile, <<"excluded", pattern>> at the first pattern that matches, "pass"
\* when the loop ends
PatternScan(patterns, fileName) ==
    IF patterns = <<>> THEN <<"pass">>
    ELSE LET src == GlobToRegexSource(Head(patterns))
         IN  IF RegExpThrows(src) THEN <<"throw">>
             ELSE IF RegexTest(src, fileName) THEN <<"excluded", Head(patterns)>>
             ELSE PatternScan(Tail(patterns), fileName)

\* shouldProcessFile(uri, config): a record [shouldProcess, reason], or
\* [throws |-> TRUE] when new RegExp throws
shouldProcessFile(uri, cfg) ==
    LET fileName == uri.fsPath
        fileExtension == LowerStr(extname(fileName))
        scan == PatternScan(cfg.excludePatterns, fileName)
        untitled == <<"u", "n", "t", "i", "t", "l", "e", "d", ":">>
        startsWith == /\ Len(fileName) >= Len(untitled)
                      /\ SubSeq(fileName, 1, Len(untitled)) = untitled
    IN  IF uri.scheme = "untitled" \/ startsWith
        THEN [throws |-> FALSE, shouldProcess |-> FALSE, reason |-> <<"untitled">>]
        ELSE IF scan[1] = "throw"
        THEN [throws |-> TRUE, shouldProcess |-> FALSE, reason |-> <<"throw">>]
        ELSE IF scan[1] = "excluded"
        THEN [throws |-> FALSE, shouldProcess |-> FALSE, reason |-> scan]
        ELSE IF fileExtension \in binaryExtensions
        THEN [throws |-> FALSE, shouldProcess |-> FALSE, reason |-> <<"binary">>]
        ELSE [throws |-> FALSE, shouldProcess |-> TRUE, reason |-> <<"ok">>]

(***************************************************************************)
(* Encoding names and the codec (iconv-lite), restricted to the repertoire *)
(* U+0000..U+007F, U+4E2D, U+929D, U+FFFD and to content bytes below 0xF0  *)
(***************************************************************************)

\* String.prototype.toLowerCase().trim() on the encoding names of the model
LowerName(e) ==
    CASE e = "UTF-8" -> "utf-8"
      [] e = "UTF8" -> "utf8"
      [] e = "Big5" -> "big5"
      [] e = "ASCII" -> "ascii"
      [] e = "ISO-8859-1" -> "iso-8859-1"
      [] e = "EUC-TW" -> "euc-tw"
      [] OTHER -> e

encodingMap ==
    [n \in {"utf8", "utf16", "utf16le", "utf16be", "ascii", "latin1", "cp1252", "gb18030"} |->
        CASE n = "utf8" -> "utf-8"
          [] n = "utf16" -> "utf-16"
          [] n = "utf16le" -> "utf-16le"
          [] n = "utf16be" -> "utf-16be"
          [] n = "ascii" -> "ascii"
          [] n = "latin1" -> "iso-8859-1"
          [] n = "cp1252" -> "windows-1252"
          [] n = "gb18030" -> "gb18030"]

normalizeEncoding(encoding) ==
    LET normalized == LowerName(encoding)
    IN  IF normalized \in DOMAIN encodingMap THEN encodingMap[normalized] ELSE normalized

\* iconv-lite's own canonical name of an encoding (lower case, punctuation
\* dropped, aliases resolved); "unsupported" when it has no such codec
IconvCodec(e) ==
    LET n == LowerName(e)
    IN  CASE n \in {"utf8", "utf-8"} -> "utf8"
          [] n = "big5" -> "big5"
          [] n \in {"gbk", "gb2312"} -> "gbk"
          [] n = "shift_jis" -> "shiftjis"
          [] n = "euc-kr" -> "euckr"
          [] n = "ascii" -> "ascii"
          [] n \in {"iso-8859-1", "latin1", "windows-1252", "cp1252"} -> "latin1"
          [] OTHER -> "unsupported"

REPL == 65533

QMARK == 63

IsCont(b) == b >= 128 /\ b <= 191

Drop(s, n) == SubSeq(s, n + 1, Len(s))

RECURSIVE DecodeUtf8(_)
DecodeUtf8(b) ==
    IF b = <<>> THEN <<>>
    ELSE IF b[1] < 128 THEN <<b[1]>> \o DecodeUtf8(Drop(b, 1))
    ELSE IF b[1] >= 194 /\ b[1] <= 223 /\ Len(b) >= 2 /\ IsCont(b[2])
    THEN <<(b[1] - 192) * 64 + (b[2] - 128)>> \o DecodeUtf8(Drop(b, 2))
    ELSE IF /\ b[1] >= 224 /\ b[1] <= 239 /\ Len(b) >= 2 /\ IsCont(b[2])
            /\ (b[1] # 224 \/ b[2] >= 160) /\ (b[1] # 237 \/ b[2] < 160)
    THEN IF Len(b) >= 3 /\ IsCont(b[3])
         THEN <<(b[1] - 224) * 4096 + (b[2] - 128) * 64 + (b[3] - 128)>>
                  \o DecodeUtf8(Drop(b, 3))
         ELSE <<REPL>> \o DecodeUtf8(Drop(b, 2))
    ELSE <<REPL>> \o DecodeUtf8(Drop(b, 1))

RECURSIVE EncodeUtf8(_)
EncodeUtf8(text) ==
    IF text = <<>> THEN <<>>
    ELSE LET cp == Head(text)
         IN  (IF cp < 128 THEN <<cp>>
              ELSE IF cp < 2048 THEN <<192 + (cp \div 64), 128 + (cp % 64)>>
              ELSE <<224 + (cp \div 4096), 128 + ((cp \div 64) % 64), 128 + (cp % 64)>>)
                 \o EncodeUtf8(Tail(text))

\* the double-byte code tables, cut to the repertoire: <<lead, trail, code point>>
Big5Table == {<<164, 164, 20013>>, <<228, 184, 37533>>, <<173, 65, 32781>>}

GbkTable == {<<164, 164, 12356>>, <<228, 184, 28051>>}

EucKrTable == {<<164, 164, 12596>>, <<228, 184, 35357>>}

ShiftJisTable == {<<228, 184, 33651>>}

\* Shift_JIS has the half-width katakana as single bytes 0xA1..0xDF
IsKana(b) == b >= 161 /\ b <= 223

KanaBase == 65216

\* the length of the longest prefix of b that is ASCII
AsciiRun(b) ==
    IF \A i \in DOMAIN b : b[i] < 128 THEN Len(b)
    ELSE (CHOOSE i \in DOMAIN b : b[i] >= 128 /\ \A j \in 1..(i - 1) : b[j] < 128) - 1

RECURSIVE DecodeDbcs(_, _, _)
\* a run of ASCII bytes decodes to itself
DecodeDbcs(b, table, kana) ==
    IF b = <<>> THEN <<>>
    ELSE IF b[1] < 128
    THEN SubSeq(b, 1, AsciiRun(b)) \o DecodeDbcs(Drop(b, AsciiRun(b)), table, kana)
    ELSE IF kana /\ IsKana(b[1])
    THEN <<KanaBase + b[1]>> \o DecodeDbcs(Drop(b, 1), table, kana)
    ELSE IF Len(b) >= 2 /\ \E e \in table : e[1] = b[1] /\ e[2] = b[2]
    THEN <<(CHOOSE e \in table : e[1] = b[1] /\ e[2] = b[2])[3]>>
             \o DecodeDbcs(Drop(b, 2), table, kana)
    ELSE <<REPL>> \o DecodeDbcs(Drop(b, 1), table, kana)

RECURSIVE EncodeDbcs(_, _, _)
EncodeDbcs(text, table, kana) ==
    IF text = <<>> THEN <<>>
    ELSE LET cp == Head(text)
         IN  (IF cp < 128 THEN <<cp>>
              ELSE IF kana /\ IsKana(cp - KanaBase) THEN <<cp - KanaBase>>
              ELSE IF \E e \in table : e[3] = cp
              THEN LET e == CHOOSE x \in table : x[3] = cp IN <<e[1], e[2]>>
              ELSE <<QMARK>>)
                 \o EncodeDbcs(Tail(text), table, kana)

\* the single-byte codecs: ascii maps the bytes above 127 to U+FFFD, latin1
\* maps every byte to the code point of the same number (windows-1252 is
\* taken with it: the two differ on 0x80..0x9F only)
DecodeSbcs(b, hi) == [i \in DOMAIN b |-> IF b[i] < 128 \/ hi THEN b[i] ELSE REPL]

EncodeSbcs(text, hi) ==
    [i \in DOMAIN text |->
        IF text[i] < 128 \/ (hi /\ text[i] < 256) THEN text[i] ELSE QMARK]

\* iconv.decode(buffer, encoding): [ok, text]; not ok when iconv-lite throws
\* "Encoding not recognized"
IconvDecode(b, e) ==
    LET c == IconvCodec(e)
    IN  CASE c = "utf8" -> [ok |-> TRUE, text |-> DecodeUtf8(b)]
          [] c = "big5" -> [ok |-> TRUE, text |-> DecodeDbcs(b, Big5Table, FALSE)]
          [] c = "gbk" -> [ok |-> TRUE, text |-> DecodeDbcs(b, GbkTable, FALSE)]
          [] c = "euckr" -> [ok |-> TRUE, text |-> DecodeDbcs(b, EucKrTable, FALSE)]
          [] c = "shiftjis" -> [ok |-> TRUE, text |-> DecodeDbcs(b, ShiftJisTable, TRUE)]
          [] c = "ascii" -> [ok |-> TRUE, text |-> DecodeSbcs(b, FALSE)]
          [] c = "latin1" -> [ok |-> TRUE, text |-> DecodeSbcs(b, TRUE)]
          [] OTHER -> [ok |-> FALSE, text |-> <<>>]

\* iconv.encode(text, encoding): [ok, bytes]
IconvEncode(text, e) ==
    LET c == IconvCodec(e)
    IN  CASE c = "utf8" -> [ok |-> TRUE, bytes |-> EncodeUtf8(text)]
          [] c = "big5" -> [ok |-> TRUE, bytes |-> EncodeDbcs(text, Big5Table, FALSE)]
          [] c = "gbk" -> [ok |-> TRUE, bytes |-> EncodeDbcs(text, GbkTable, FALSE)]
          [] c = "euckr" -> [ok |-> TRUE, bytes |-> EncodeDbcs(text, EucKrTable, FALSE)]
          [] c = "shiftjis" -> [ok |-> TRUE, bytes |-> EncodeDbcs(text, ShiftJisTable, TRUE)]
          [] c = "ascii" -> [ok |-> TRUE, bytes |-> EncodeSbcs(text, FALSE)]
          [] c = "latin1" -> [ok |-> TRUE, bytes |-> EncodeSbcs(text, TRUE)]
          [] OTHER -> [ok |-> FALSE, bytes |-> <<>>]

(***************************************************************************)
(* The state                                                               *)
(***************************************************************************)

VARIABLES
    fs,        \* the files: path |-> [data: bytes, mtime]
    now,       \* the clock that stamps writes
    config,    \* the workspace settings of 'encodingConverter'
    faults,    \* the I/O operations that have failed so far
    tasks,     \* the convertFile activations of the running command or wave
    cmd,       \* the command handler that is running, "idle" when none
    hist,      \* the single-file conversions so far, the last one last
    undo,      \* the undoConversion activation
    batch,     \* the locals of the batch command and of processMultipleFiles
    ncmd,      \* the commands started so far
    limits     \* how many I/O failures and commands this run may see

vars == <<fs, now, config, faults, tasks, cmd, hist, undo, batch, ncmd, limits>>

\* the counter value past which the probe of createBackup throws
ProbeCap == 100

\* the numbered candidates findLatestBackup looks at: .bak.1 ... .bak.5
LatestCandidates == 5

MaxClock == 3

MaxFaults == 1

MaxCmds == 2

(***************************************************************************)
(* vscode.workspace.fs                                                     *)
(***************************************************************************)

FileUri(p) == [scheme |-> "file", fsPath |-> p]

Exists(f, p) == p \in DOMAIN f

FsWrite(f, p, data, t) ==
    [q \in (DOMAIN f) \cup {p} |-> IF q = p THEN [data |-> data, mtime |-> t] ELSE f[q]]

FsDelete(f, p) == [q \in (DOMAIN f) \ {p} |-> f[q]]

\* whether an I/O operation goes through: any one may fail, limits.faults in
\* all
IoOutcomes == IF faults < limits.faults THEN {TRUE, FALSE} ELSE {TRUE}

\* the time a write is stamped with: the clock may have advanced since the
\* last write, or not (a coarse time stamp)
WriteTimes == IF now < MaxClock THEN {now, now + 1} ELSE {now}

Fault(ok) == faults' = IF ok THEN faults ELSE faults + 1

(***************************************************************************)
(* detectEncoding                                                          *)
(***************************************************************************)

\* what the collaborators of the detector may answer: the encoding the editor
\* holds for an open document, jschardet's result (confidence in percent),
\* the result of detect-file-encoding-and-language
EditorHints == {None, "utf8", "big5"}

JschardetResults ==
    { [throws |-> TRUE, encoding |-> None, confidence |-> 0],
      [throws |-> FALSE, encoding |-> None, confidence |-> 0],
      [throws |-> FALSE, encoding |-> "UTF-8", confidence |-> 99],
      [throws |-> FALSE, encoding |-> "Big5", confidence |-> 99],
      [throws |-> FALSE, encoding |-> "Big5", confidence |-> 70],
      [throws |-> FALSE, encoding |-> "EUC-TW", confidence |-> 80] }

DetectFileResults ==
    { [throws |-> TRUE, encoding |-> None],
      [throws |-> FALSE, encoding |-> None],
      [throws |-> FALSE, encoding |-> "UTF-8"],
      [throws |-> FALSE, encoding |-> "ISO-8859-1"] }

commonEncodings ==
    <<"big5", "gbk", "gb2312", "shift_jis", "euc-kr", "iso-8859-1", "windows-1252">>

\* (testText.match(/�/g) || []).length
ReplacementCount(text) == Cardinality({i \in DOMAIN text : text[i] = REPL})

\* a threshold of 10% whatever the length
HeuristicThresholdTenth(length) == Max(1, length \div 10)

\* rawBuffer.length < 100 ? Math.max(1, Math.floor(length * 0.1))
\*                        : Math.floor(length * 0.05)
HeuristicThreshold(length) ==
    IF length < 100 THEN Max(1, length \div 10) ELSE length \div 20

RECURSIVE Heuristic(_, _)
\* Method 4: the first candidate that decodes with fewer replacement
\* characters than the threshold; a candidate whose decode throws is passed
Heuristic(rawBuffer, candidates) ==
    IF candidates = <<>>
    THEN [encoding |-> "utf-8", confidence |-> 50, method |-> "default"]
    ELSE LET testEncoding == Head(candidates)
             dec == IconvDecode(rawBuffer, testEncoding)
         IN  IF dec.ok /\ ReplacementCount(dec.text) < HeuristicThreshold(Len(rawBuffer))
             THEN [encoding |-> normalizeEncoding(testEncoding), confidence |-> 60,
                   method |-> "heuristic"]
             ELSE Heuristic(rawBuffer, Tail(candidates))

\* a detectEncoding that asks the auxiliary detector before the statistical
\* one
DetectBufferAuxFirst(rawBuffer, hint, js, aux) ==
    IF Len(rawBuffer) = 0
    THEN [encoding |-> "utf-8", confidence |-> 100, method |-> "empty-file"]
    ELSE IF Len(rawBuffer) < 4
    THEN IF \A i \in DOMAIN rawBuffer : rawBuffer[i] < 128 /\ rawBuffer[i] > 0
         THEN [encoding |-> "ascii", confidence |-> 90, method |-> "small-ascii"]
         ELSE [encoding |-> "utf-8", confidence |-> 70, method |-> "small-file"]
    ELSE IF hint # None /\ hint # "utf8" /\ hint # "utf-8"
    THEN [encoding |-> normalizeEncoding(hint), confidence |-> 95, method |-> "vscode"]
    ELSE IF ~aux.throws /\ aux.encoding # None /\ LowerName(aux.encoding) # "utf-8"
    THEN [encoding |-> normalizeEncoding(aux.encoding), confidence |-> 80,
          method |-> "detect-file-encoding-and-language"]
    ELSE IF ~js.throws /\ js.encoding # None /\ js.confidence > 70
    THEN [encoding |-> normalizeEncoding(js.encoding), confidence |-> js.confidence,
          method |-> "jschardet"]
    ELSE Heuristic(rawBuffer, commonEncodings)

\* a detectEncoding without the rule of the empty file
DetectBufferNoEmpty(rawBuffer, hint, js, aux) ==
    IF Len(rawBuffer) < 4
    THEN IF \A i \in DOMAIN rawBuffer : rawBuffer[i] < 128 /\ rawBuffer[i] > 0
         THEN [encoding |-> "ascii", confidence |-> 90, method |-> "small-ascii"]
         ELSE [encoding |-> "utf-8", confidence |-> 70, method |-> "small-file"]
    ELSE Heuristic(rawBuffer, commonEncodings)

\* detectEncoding once the file is read: hint, js and aux are the answers of
\* the collaborators
DetectBuffer(rawBuffer, hint, js, aux) ==
    IF Len(rawBuffer) = 0
    THEN [encoding |-> "utf-8", confidence |-> 100, method |-> "empty-file"]
    ELSE IF Len(rawBuffer) < 4
    THEN IF \A i \in DOMAIN rawBuffer : rawBuffer[i] < 128 /\ rawBuffer[i] > 0
         THEN [encoding |-> "ascii", confidence |-> 90, method |-> "small-ascii"]
         ELSE [encoding |-> "utf-8", confidence |-> 70, method |-> "small-file"]
    ELSE IF hint # None /\ hint # "utf8" /\ hint # "utf-8"
    THEN [encoding |-> normalizeEncoding(hint), confidence |-> 95, method |-> "vscode"]
    ELSE IF ~js.throws /\ js.encoding # None /\ js.confidence > 70
    THEN [encoding |-> normalizeEncoding(js.encoding), confidence |-> js.confidence,
          method |-> "jschardet"]
    ELSE IF ~aux.throws /\ aux.encoding # None /\ LowerName(aux.encoding) # "utf-8"
    THEN [encoding |-> normalizeEncoding(aux.encoding), confidence |-> 80,
          method |-> "detect-file-encoding-and-language"]
    ELSE Heuristic(rawBuffer, commonEncodings)

\* an outer catch that answers with the default
DetectFallbackDefault == [encoding |-> "utf-8", confidence |-> 50, method |-> "default"]

DetectFallback == [encoding |-> "utf-8", confidence |-> 10, method |-> "fallback"]

\* detectEncoding was not called
NoDetection == [encoding |-> None, confidence |-> 0, method |-> None]

\* the results detectEncoding may give for a file it could read
DetectResults(rawBuffer) ==
    { DetectBuffer(rawBuffer, h, j, a) :
        h \in EditorHints, j \in JschardetResults, a \in DetectFileResults }

(***************************************************************************)
(* convertFile: one activation is a record; pc is the await it stands at   *)
(***************************************************************************)

\* a number field that is not set (backupCreated not set reads as false)
Undefined == -1

\* the promise of an activation that has not resolved
NoResult ==
    [kind |-> "none", success |-> FALSE, filePath |-> <<>>, skipped |-> FALSE,
     skipReason |-> <<>>, error |-> FALSE, backupCreated |-> FALSE,
     originalEncoding |-> None, targetEncoding |-> None, fileSize |-> Undefined]

\* a classifier rejection that is reported as a success
SkipRejectedAsSuccess(filePath, reason) ==
    [kind |-> "result", success |-> TRUE, filePath |-> filePath, skipped |-> TRUE,
     skipReason |-> reason, error |-> FALSE, backupCreated |-> FALSE,
     originalEncoding |-> None, targetEncoding |-> None, fileSize |-> Undefined]

SkipRejected(filePath, reason) ==
    [kind |-> "result", success |-> FALSE, filePath |-> filePath, skipped |-> TRUE,
     skipReason |-> reason, error |-> FALSE, backupCreated |-> FALSE,
     originalEncoding |-> None, targetEncoding |-> None, fileSize |-> Undefined]

SkipAlready(t) ==
    [kind |-> "result", success |-> TRUE, filePath |-> t.uri.fsPath, skipped |-> TRUE,
     skipReason |-> <<"already">>, error |-> FALSE, backupCreated |-> FALSE,
     originalEncoding |-> t.detected, targetEncoding |-> t.tgt, fileSize |-> t.fileSize]

Converted(t) ==
    [kind |-> "result", success |-> TRUE, filePath |-> t.uri.fsPath, skipped |-> FALSE,
     skipReason |-> <<>>, error |-> FALSE, backupCreated |-> t.backupCreated,
     originalEncoding |-> t.detected, targetEncoding |-> t.tgt, fileSize |-> t.fileSize]

\* the catch block of convertFile: originalEncoding is the sourceEncoding
\* argument
Failed(t) ==
    [kind |-> "result", success |-> FALSE, filePath |-> t.uri.fsPath, skipped |-> FALSE,
     skipReason |-> <<>>, error |-> TRUE, backupCreated |-> FALSE,
     originalEncoding |-> t.src, targetEncoding |-> t.tgt, fileSize |-> t.fileSize]

\* the result of a large file the user did not say 'Yes' to
SkipLarge(t) ==
    [kind |-> "result", success |-> FALSE, filePath |-> t.uri.fsPath, skipped |-> TRUE,
     skipReason |-> <<"large">>, error |-> FALSE, backupCreated |-> FALSE,
     originalEncoding |-> None, targetEncoding |-> None, fileSize |-> Undefined]

Resolve(t, r) == [t EXCEPT !.pc = "done", !.result = r]

\* 100 * 1024 * 1024
LargeFileLimit == 104857600

\* the bytes that stand for a file of LargeFileLimit + 1 letters 'A'
HugeData == <<65, 65, 65, 65, 65>>

\* rawBuffer.length
BufferLength(data) == IF data = HugeData THEN LargeFileLimit + 1 ELSE Len(data)

\* convertFile up to its first await: getConfig and shouldProcessFile
StartTask(uri, src, tgt, cfg) ==
    LET check == shouldProcessFile(uri, cfg)
        t == [uri |-> uri, src |-> src, tgt |-> tgt, cfg |-> cfg, pc |-> "stat",
              fileSize |-> 0, raw |-> <<>>, detected |-> None, originalContent |-> <<>>,
              backupPath |-> <<>>, counter |-> 1, backupCreated |-> FALSE,
              encoded |-> <<>>, result |-> NoResult,
              \* for the properties: createBackup has returned, the decode or
              \* the encode threw, writeFile(uri) was called
              bkReturned |-> FALSE, codecFailed |-> FALSE, wrote |-> FALSE,
              \* and the time stamp of the backup it wrote
              bkTime |-> 0,
              \* what detectEncoding returned, and how its readFile went
              detection |-> NoDetection, detRead |-> None]
    IN  IF check.throws THEN [t EXCEPT !.pc = "rejected"]
        ELSE IF ~check.shouldProcess THEN Resolve(t, SkipRejected(uri.fsPath, check.reason))
        ELSE t

\* a convertFile that goes on to the write after a decode or an encode that
\* threw
DecodeEncodeThenWrite(t) ==
    LET dec == IconvDecode(t.raw, t.detected)
        enc == IconvEncode(dec.text, t.tgt)
    IN  [t EXCEPT !.pc = "write", !.encoded = enc.bytes,
                  !.codecFailed = ~dec.ok \/ ~enc.ok]

\* "Decode from source encoding" and "Encode to target encoding": the retry
\* with stripBOM decodes with the same codec, so it throws when the first
\* attempt did
DecodeEncode(t) ==
    LET dec == IconvDecode(t.raw, t.detected)
        enc == IconvEncode(dec.text, t.tgt)
    IN  IF ~dec.ok \/ ~enc.ok THEN Resolve([t EXCEPT !.codecFailed = TRUE], Failed(t))
        ELSE [t EXCEPT !.pc = "write", !.encoded = enc.bytes]

\* a convertFile that gives up when createBackup returns false
AfterBackupOrAbort(t, b) ==
    IF b THEN DecodeEncode([t EXCEPT !.backupCreated = b, !.bkReturned = TRUE])
    ELSE Resolve([t EXCEPT !.bkReturned = TRUE], Failed(t))

\* createBackup has returned b
AfterBackup(t, b) == DecodeEncode([t EXCEPT !.backupCreated = b, !.bkReturned = TRUE])

\* a convertFile without the "already in target encoding" check
AfterDetectNoShortcut(t) ==
    IF t.cfg.createBackup THEN [t EXCEPT !.pc = "bkread"] ELSE DecodeEncode(t)

\* a convertFile that takes equal encoding names as proof that there is
\* nothing to convert
AfterDetectTrustNames(t) ==
    IF normalizeEncoding(t.detected) = normalizeEncoding(t.tgt)
    THEN Resolve(t, SkipAlready(t))
    ELSE IF t.cfg.createBackup THEN [t EXCEPT !.pc = "bkread"]
    ELSE DecodeEncode(t)

\* "Check if already in target encoding", then "Create backup if enabled"
AfterDetect(t) ==
    LET normalizedDetected == normalizeEncoding(t.detected)
        normalizedTarget == normalizeEncoding(t.tgt)
        testText == IconvDecode(t.raw, normalizedTarget)
        reencoded == IconvEncode(testText.text, normalizedTarget)
    IN  IF /\ normalizedDetected = normalizedTarget
           /\ testText.ok /\ reencoded.ok
           /\ reencoded.bytes = t.raw
        THEN Resolve(t, SkipAlready(t))
        ELSE IF t.cfg.createBackup THEN [t EXCEPT !.pc = "bkread"]
        ELSE DecodeEncode(t)

\* the rest of convertFile once the file is read
AfterSizeCheck(t) ==
    IF t.src # None THEN AfterDetect([t EXCEPT !.detected = LowerName(t.src)])
    ELSE [t EXCEPT !.pc = "detect"]

\* convertFile after readFile: the check of the size, which asks the user
\* about a file over 100MB
AfterRead(t, data) ==
    LET t1 == [t EXCEPT !.raw = data]
    IN  IF BufferLength(data) > LargeFileLimit THEN [t1 EXCEPT !.pc = "prompt"]
        ELSE AfterSizeCheck(t1)

\* one pass of the probe loop of createBackup, the stat having said whether
\* the candidate exists
ProbeStep(t, exists) ==
    IF exists
    THEN LET t1 == [t EXCEPT !.backupPath = BakPathN(t.uri.fsPath, t.counter),
                             !.counter = t.counter + 1]
         IN  IF t1.counter > ProbeCap THEN [t1 EXCEPT !.pc = "bkwrite"] ELSE t1
    ELSE [t EXCEPT !.pc = "bkwrite"]

At(i, pc) == i \in DOMAIN tasks /\ tasks[i].pc = pc

Others == <<config, cmd, hist, undo, batch, ncmd, limits>>

\* await getFileSize(uri)
TaskStat(i) ==
    /\ At(i, "stat")
    /\ \E ok \in IoOutcomes :
        LET p == tasks[i].uri.fsPath
            size == IF ok /\ Exists(fs, p) THEN BufferLength(fs[p].data) ELSE 0
        IN  /\ tasks' = [tasks EXCEPT ![i] = [@ EXCEPT !.pc = "read", !.fileSize = size]]
            /\ Fault(ok)
    /\ UNCHANGED <<fs, now>>
    /\ UNCHANGED Others

\* await vscode.workspace.fs.readFile(uri)
TaskRead(i) ==
    /\ At(i, "read")
    /\ \E ok \in IoOutcomes :
        LET t == tasks[i]
            p == t.uri.fsPath
        IN  /\ tasks' = [tasks EXCEPT ![i] =
                            IF ok /\ Exists(fs, p) THEN AfterRead(t, fs[p].data)
                            ELSE Resolve(t, Failed(t))]
            /\ Fault(ok)
    /\ UNCHANGED <<fs, now>>
    /\ UNCHANGED Others

\* await showWarningMessage(..., 'Yes', 'No'): the user picks one or
\* dismisses the message
TaskPrompt(i) ==
    /\ At(i, "prompt")
    /\ \E proceed \in {"Yes", "No", None} :
        tasks' = [tasks EXCEPT ![i] = IF proceed = "Yes" THEN AfterSizeCheck(@)
                                      ELSE Resolve(@, SkipLarge(@))]
    /\ UNCHANGED <<fs, now, faults>>
    /\ UNCHANGED Others

\* await detectEncoding(uri), which reads the file again
TaskDetect(i) ==
    /\ At(i, "detect")
    /\ \E ok \in IoOutcomes :
        LET t == tasks[i]
            p == t.uri.fsPath
        IN  /\ \E d \in (IF ok /\ Exists(fs, p) THEN DetectResults(fs[p].data)
                         ELSE {DetectFallback}) :
                 tasks' = [tasks EXCEPT ![i] =
                              AfterDetect([t EXCEPT !.detected = d.encoding,
                                                    !.detection = d,
                                                    !.detRead = IF ok /\ Exists(fs, p)
                                                                THEN "ok" ELSE "failed"])]
            /\ Fault(ok)
    /\ UNCHANGED <<fs, now>>
    /\ UNCHANGED Others

\* createBackup: await readFile(uri)
TaskBkRead(i) ==
    /\ At(i, "bkread")
    /\ \E ok \in IoOutcomes :
        LET t == tasks[i]
            p == t.uri.fsPath
        IN  /\ tasks' = [tasks EXCEPT ![i] =
                            IF ok /\ Exists(fs, p)
                            THEN [t EXCEPT !.pc = "bkstat", !.originalContent = fs[p].data,
                                           !.backupPath = BakPath(p), !.counter = 1]
                            ELSE AfterBackup(t, FALSE)]
            /\ Fault(ok)
    /\ UNCHANGED <<fs, now>>
    /\ UNCHANGED Others

\* createBackup: await stat(backupUri) in the probe loop
TaskBkStat(i) ==
    /\ At(i, "bkstat")
    /\ \E ok \in IoOutcomes :
        /\ tasks' = [tasks EXCEPT ![i] = ProbeStep(@, ok /\ Exists(fs, @.backupPath))]
        /\ Fault(ok)
    /\ UNCHANGED <<fs, now>>
    /\ UNCHANGED Others

\* createBackup: await writeFile(backupUri, originalContent)
TaskBkWrite(i) ==
    /\ At(i, "bkwrite")
    /\ \E ok \in IoOutcomes, time \in WriteTimes :
        LET t == tasks[i]
        IN  /\ fs' = IF ok THEN FsWrite(fs, t.backupPath, t.originalContent, time) ELSE fs
            /\ now' = IF ok THEN time ELSE now
            /\ tasks' = [tasks EXCEPT ![i] =
                            AfterBackup([t EXCEPT !.bkTime = IF ok THEN time ELSE 0], ok)]
            /\ Fault(ok)
    /\ UNCHANGED Others

\* await vscode.workspace.fs.writeFile(uri, encodedBuffer)
TaskWrite(i) ==
    /\ At(i, "write")
    /\ \E ok \in IoOutcomes :
        LET t == [tasks[i] EXCEPT !.wrote = TRUE]
        IN  /\ fs' = IF ok THEN FsWrite(fs, t.uri.fsPath, t.encoded, now) ELSE fs
            /\ tasks' = [tasks EXCEPT ![i] =
                            IF ok THEN Resolve(t, Converted(t)) ELSE Resolve(t, Failed(t))]
            /\ Fault(ok)
    /\ UNCHANGED now
    /\ UNCHANGED Others

(***************************************************************************)
(* findLatestBackup and undoConversion                                     *)
(***************************************************************************)

\* candidates[k]: filePath + '.bak' for k = 0, filePath + '.bak.k' above
Candidate(filePath, k) == IF k = 0 THEN BakPath(filePath) ELSE BakPathN(filePath, k)

RECURSIVE LatestFrom(_, _, _, _, _, _)
\* the loop of findLatestBackup from candidate k on; the stat of the
\* candidates in failed throws
LatestFrom(f, filePath, k, latestBackup, latestTime, failed) ==
    IF k > LatestCandidates THEN latestBackup
    ELSE LET c == Candidate(filePath, k)
         IN  IF Exists(f, c) /\ k \notin failed /\ f[c].mtime > latestTime
             THEN LatestFrom(f, filePath, k + 1, c, f[c].mtime, failed)
             ELSE LatestFrom(f, filePath, k + 1, latestBackup, latestTime, failed)

\* the path of the latest backup, <<>> for null
findLatestBackup(f, filePath, failed) == LatestFrom(f, filePath, 0, <<>>, 0, failed)

\* message is what showErrorMessage was called with; fs0, for the properties,
\* the files when undoConversion was called
NoUndo == [pc |-> "none", filePath |-> <<>>, backupPath |-> <<>>, content |-> <<>>,
           ret |-> FALSE, message |-> "none", fs0 |-> <<>>]

\* an undoConversion that returns true whatever happened
UndoReturnTrue(u, r) == [u EXCEPT !.pc = "done", !.ret = TRUE]

\* a catch block of undoConversion that reports the undo as done
UndoFailedQuietly(u) == [u EXCEPT !.pc = "done", !.ret = TRUE]

\* the catch block of undoConversion
UndoFailed(u) == [u EXCEPT !.pc = "done", !.ret = FALSE, !.message = "Failed to undo"]

UndoReturn(u, r) == [u EXCEPT !.pc = "done", !.ret = r]

UndoOthers == <<config, tasks, cmd, hist, batch, ncmd, limits>>

\* await findLatestBackup(filePath)
UndoFind ==
    /\ undo.pc = "find"
    /\ \E ok \in IoOutcomes :
        \E failed \in (IF ok THEN {{}} ELSE {{k} : k \in 0..LatestCandidates}) :
            LET backupPath == findLatestBackup(fs, undo.filePath, failed)
            IN  /\ undo' = IF backupPath = <<>>
                           THEN UndoReturn([undo EXCEPT !.message = "No backup file found"],
                                           FALSE)
                           ELSE [undo EXCEPT !.pc = "read", !.backupPath = backupPath]
                /\ Fault(ok)
    /\ UNCHANGED <<fs, now>>
    /\ UNCHANGED UndoOthers

\* await readFile(backupUri)
UndoRead ==
    /\ undo.pc = "read"
    /\ \E ok \in IoOutcomes :
        /\ undo' = IF ok /\ Exists(fs, undo.backupPath)
                   THEN [undo EXCEPT !.pc = "write", !.content = fs[undo.backupPath].data]
                   ELSE UndoFailed(undo)
        /\ Fault(ok)
    /\ UNCHANGED <<fs, now>>
    /\ UNCHANGED UndoOthers

\* await writeFile(originalUri, backupContent)
UndoWrite ==
    /\ undo.pc = "write"
    /\ \E ok \in IoOutcomes :
        /\ fs' = IF ok THEN FsWrite(fs, undo.filePath, undo.content, now) ELSE fs
        /\ undo' = IF ok THEN [undo EXCEPT !.pc = "delete"] ELSE UndoFailed(undo)
        /\ Fault(ok)
    /\ UNCHANGED now
    /\ UNCHANGED UndoOthers

\* await delete(backupUri)
UndoDelete ==
    /\ undo.pc = "delete"
    /\ \E ok \in IoOutcomes :
        /\ fs' = IF ok /\ Exists(fs, undo.backupPath) THEN FsDelete(fs, undo.backupPath)
                 ELSE fs
        /\ undo' = IF ok /\ Exists(fs, undo.backupPath) THEN UndoReturn(undo, TRUE)
                   ELSE UndoFailed(undo)
        /\ Fault(ok)
    /\ UNCHANGED now
    /\ UNCHANGED UndoOthers

(***************************************************************************)
(* The single-file commands                                                *)
(***************************************************************************)

P == <<"a", ".", "t">>

\* what older backups of P hold
OldData == <<66>>

\* the documents a single-file command is run on
Docs == {FileUri(P), [scheme |-> "untitled", fsPath |-> <<"U">>]}

\* (sourceEncoding, targetEncoding) of convertToUTF8 and of
\* convertBetweenEncodings, whose picks are the labels of encodingOptions
SingleArgs ==
    { <<None, "utf8">>, <<None, "utf-8">>, <<"Big5", "utf-8">>, <<"UTF-8", "big5">> }

\* a conversion of the history: the activation as it ended and, for the
\* properties, the files and the bytes of the document when it started
Conversion(task, f) ==
    [task |-> task, fs0 |-> f,
     pre |-> IF Exists(f, task.uri.fsPath) THEN f[task.uri.fsPath].data ELSE <<>>,
     undone |-> FALSE]

Last == hist[Len(hist)]

\* a command handler calls convertFile(targetUri, sourceEncoding, target)
CmdConvert ==
    /\ cmd = "idle"
    /\ ncmd < limits.cmds
    /\ \E uri \in Docs, a \in SingleArgs :
        /\ tasks' = <<StartTask(uri, a[1], a[2], config)>>
        /\ hist' = Append(hist, Conversion(tasks'[1], fs))
    /\ cmd' = "convert"
    /\ ncmd' = ncmd + 1
    /\ undo' = NoUndo
    /\ UNCHANGED <<fs, now, config, faults, batch, limits>>

\* the await of the handler ends: with the result, or in its catch block
CmdConvertReturn ==
    /\ cmd = "convert"
    /\ tasks[1].pc \in {"done", "rejected"}
    /\ hist' = [hist EXCEPT ![Len(hist)].task = tasks[1]]
    /\ tasks' = <<>>
    /\ cmd' = "idle"
    /\ UNCHANGED <<fs, now, config, faults, undo, batch, ncmd, limits>>

\* the message of a conversion offers 'Undo' when result.backupCreated
UndoOffered ==
    /\ hist # <<>>
    /\ Last.task.pc = "done"
    /\ Last.task.result.success /\ ~Last.task.result.skipped
    /\ Last.task.result.backupCreated
    /\ ~Last.undone

\* the user picks 'Undo' in the message of the conversion
CmdUndo ==
    /\ cmd = "idle"
    /\ UndoOffered
    /\ undo' = [NoUndo EXCEPT !.pc = "find", !.filePath = Last.task.result.filePath,
                              !.fs0 = fs]
    /\ hist' = [hist EXCEPT ![Len(hist)].undone = TRUE]
    /\ cmd' = "undo"
    /\ UNCHANGED <<fs, now, config, faults, tasks, batch, ncmd, limits>>

CmdUndoReturn ==
    /\ cmd = "undo"
    /\ undo.pc = "done"
    /\ cmd' = "idle"
    /\ UNCHANGED <<fs, now, config, faults, tasks, hist, undo, batch, ncmd, limits>>

(***************************************************************************)
(* Spec: the single-file commands on a file with older backups             *)
(***************************************************************************)

MaxPre == 7

\* how many older backups P has: few, or about as many as the probe allows
PreCounts == (0..MaxPre) \cup {ProbeCap - 1, ProbeCap, ProbeCap + 1}

Contents == { <<>>, <<164, 164>>, <<164, 164, 164, 164>>, <<228, 184, 173, 65>> }

PatternLists ==
    { << <<"*", ".", "s", "o">> >>,
      << <<"*", ".", "t">> >>,
      << <<"(">> >> }

InitFs(data, n, m) ==
    [q \in {P} \cup {Candidate(P, k) : k \in 0..(n - 1)} |->
        IF q = P THEN [data |-> data, mtime |-> 1] ELSE [data |-> OldData, mtime |-> m]]

NoBatchResult ==
    [totalFiles |-> 0, processed |-> 0, converted |-> 0, skipped |-> 0, errors |-> 0,
     results |-> <<>>]

\* the locals of a batch command handler and of processMultipleFiles; ret is
\* the BatchConversionResult once returned = TRUE; calls counts the
\* convertFile calls made, waves the sizes of the slices, cancelAt the waves
\* started when 'Cancel' was pressed, cancelLive whether a conversion was
\* pending then, fs0 the files when the command started; reports holds the
\* increments given to progress.report, each as the number n of
\* (n / totalFiles) * 100
NoBatch ==
    [pc |-> "idle", files |-> <<>>, src |-> None, tgt |-> None,
     cfg |-> [batchConcurrency |-> 0, createBackup |-> FALSE, excludePatterns |-> <<>>],
     totalFiles |-> 0, batchSize |-> 0, i |-> 0, results |-> <<>>,
     processed |-> 0, converted |-> 0, skipped |-> 0, errors |-> 0,
     cancel |-> FALSE, confirmed |-> FALSE, returned |-> FALSE, ret |-> NoBatchResult,
     calls |-> 0, waves |-> <<>>, cancelAt |-> 0, cancelLive |-> FALSE, fs0 |-> <<>>,
     reports |-> <<>>]

\* the settings as getConfig defaults them, with one of the default patterns
DefaultConfig ==
    [batchConcurrency |-> 5, createBackup |-> TRUE,
     excludePatterns |-> << <<"*", ".", "s", "o">> >>]

Rest(clock) ==
    /\ now = clock
    /\ faults = 0
    /\ tasks = <<>>
    /\ cmd = "idle"
    /\ hist = <<>>
    /\ undo = NoUndo
    /\ batch = NoBatch
    /\ ncmd = 0

\* P has older backups: one command, under the default settings; I/O fails
\* only where the older backups are few
InitBackups ==
    /\ \E n \in PreCounts, m \in {0, 1} :
        /\ fs = InitFs(<<164, 164, 164, 164>>, n, m)
        /\ limits = [faults |-> IF n <= MaxPre THEN MaxFaults ELSE 0, cmds |-> 1,
                     edits |-> FALSE]
    /\ config = DefaultConfig
    /\ Rest(1)

\* P has any content, the settings are any: one command
InitSettings ==
    /\ \E data \in Contents : fs = InitFs(data, 0, 1)
    /\ \E b \in BOOLEAN, pl \in PatternLists :
        config = [batchConcurrency |-> 5, createBackup |-> b, excludePatterns |-> pl]
    /\ limits = [faults |-> MaxFaults, cmds |-> 1, edits |-> FALSE]
    /\ Rest(1)

\* P is a UTF-8 text: MaxCmds commands one after the other, no I/O failure
InitRepeat ==
    /\ fs = InitFs(<<228, 184, 173, 65>>, 0, 1)
    /\ config = DefaultConfig
    /\ limits = [faults |-> 0, cmds |-> MaxCmds, edits |-> FALSE]
    /\ Rest(1)

\* P is a file over 100MB: one command, no I/O failure
InitHuge ==
    /\ fs = InitFs(HugeData, 0, 1)
    /\ config = DefaultConfig
    /\ limits = [faults |-> 0, cmds |-> 1, edits |-> FALSE]
    /\ Rest(1)

\* the text "ABCD"
AsciiData == <<65, 66, 67, 68>>

\* P is a file of clean ASCII: one command, no I/O failure
InitAscii ==
    /\ fs = InitFs(AsciiData, 0, 1)
    /\ config = DefaultConfig
    /\ limits = [faults |-> 0, cmds |-> 1, edits |-> FALSE]
    /\ Rest(1)

Init == InitBackups \/ InitSettings \/ InitRepeat \/ InitHuge \/ InitAscii

Next ==
    \/ CmdConvert
    \/ \E i \in DOMAIN tasks : TaskStat(i)
    \/ \E i \in DOMAIN tasks : TaskRead(i)
    \/ \E i \in DOMAIN tasks : TaskPrompt(i)
    \/ \E i \in DOMAIN tasks : TaskDetect(i)
    \/ \E i \in DOMAIN tasks : TaskBkRead(i)
    \/ \E i \in DOMAIN tasks : TaskBkStat(i)
    \/ \E i \in DOMAIN tasks : TaskBkWrite(i)
    \/ \E i \in DOMAIN tasks : TaskWrite(i)
    \/ CmdConvertReturn
    \/ CmdUndo
    \/ UndoFind
    \/ UndoRead
    \/ UndoWrite
    \/ UndoDelete
    \/ CmdUndoReturn

Spec == Init /\ [][Next]_vars

(***************************************************************************)
(* The batch commands and processMultipleFiles                             *)
(***************************************************************************)

\* the folder the files are in
RootDir == [scheme |-> "file", fsPath |-> <<"/">>]

B == <<"b", ".", "t">>

RECURSIVE SetToSeq(_)
SetToSeq(S) ==
    IF S = {} THEN <<>>
    ELSE LET x == CHOOSE y \in S : TRUE IN <<x>> \o SetToSeq(S \ {x})

MaxListed == 3

\* the orders readDirectory may list the names S in; a long listing is taken
\* in one order only
DirOrders(S) ==
    IF Cardinality(S) > MaxListed THEN {SetToSeq(S)}
    ELSE {s \in [1..Cardinality(S) -> S] : \A i, j \in DOMAIN s : i # j => s[i] # s[j]}

RECURSIVE DirLoop(_, _)
\* the loop of getFilesInDirectory over the entries: the children that
\* shouldProcessFile lets through; a throw of shouldProcessFile ends the loop
\* in the catch block, with the files pushed so far
DirLoop(entries, cfg) ==
    IF entries = <<>> THEN <<>>
    ELSE LET childUri == FileUri(Head(entries))
             processCheck == shouldProcessFile(childUri, cfg)
         IN  IF processCheck.throws THEN <<>>
             ELSE (IF processCheck.shouldProcess THEN <<childUri>> ELSE <<>>)
                      \o DirLoop(Tail(entries), cfg)

\* getFilesInDirectory(uri): readOk is whether readDirectory went through
getFilesInDirectory(entries, cfg, readOk) ==
    IF readOk THEN DirLoop(entries, cfg) ELSE <<>>

RECURSIVE FilesToProcess(_, _, _, _)
\* the loop over the selected uris: a file is pushed as it is, a directory
\* adds the files of its walk
FilesToProcess(uris, entries, cfg, readOk) ==
    IF uris = <<>> THEN <<>>
    ELSE (IF Head(uris) = RootDir THEN getFilesInDirectory(entries, cfg, readOk)
          ELSE <<Head(uris)>>) \o FilesToProcess(Tail(uris), entries, cfg, readOk)

\* what the user may have selected in the explorer
Selections ==
    IF Cardinality(DOMAIN fs) > MaxListed
    THEN { [k \in 1..Cardinality(DOMAIN fs) |-> FileUri(SetToSeq(DOMAIN fs)[k])] }
    ELSE { <<RootDir>>, <<FileUri(P), FileUri(B)>>, <<FileUri(P), FileUri(P)>>,
           <<RootDir, FileUri(P)>> }

\* (sourceEncoding, targetEncoding) of batchConvertToUTF8 and of
\* batchConvertBetweenEncodings
BatchArgs == { <<None, "utf8">>, <<"Big5", "utf-8">> }

\* files.slice(i, j): a negative index counts from the end, an index stays
\* within 0..length, and the slice is empty when the index of j is not past
\* the index of i
Slice(files, i, j) ==
    LET len == Len(files)
        from == IF i < 0 THEN Max(len + i, 0) ELSE Min(i, len)
        to == IF j < 0 THEN Max(len + j, 0) ELSE Min(j, len)
    IN  SubSeq(files, from + 1, to)

\* the waves and the progress reports that the properties look at
MaxWaves == 5

\* the ghost list s with x noted at its end
Noted(s, x) == IF Len(s) < MaxWaves THEN Append(s, x) ELSE s

\* a processMultipleFiles that hands all the files to one wave
BatchSizeAll(batchConcurrency, totalFiles) == totalFiles

\* Math.min(config.batchConcurrency, totalFiles)
BatchSize(batchConcurrency, totalFiles) == Min(batchConcurrency, totalFiles)

\* a Promise.all that resolves with the first of its promises
WaveSettledFirst(ts) == \E j \in DOMAIN ts : ts[j].pc \in {"done", "rejected"}

\* Promise.all(batchPromises) has settled: every promise has resolved, or one
\* has rejected (an activation rejects before its first await, so by then no
\* other one of the wave is pending)
WaveSettled(ts) == \A j \in DOMAIN ts : ts[j].pc \in {"done", "rejected"}

\* the value processMultipleFiles returns after the loop
BatchReturn(b) ==
    [b EXCEPT !.pc = "ended", !.returned = TRUE,
              !.ret = [totalFiles |-> b.totalFiles, processed |-> b.processed,
                       converted |-> b.converted, skipped |-> b.skipped,
                       errors |-> b.errors, results |-> b.results]]

\* a loop that does not look at the token
LoopHeadNoToken(b, cfg) ==
    IF b.i < b.totalFiles
    THEN LET slice == Slice(b.files, b.i, b.i + b.batchSize)
         IN  [b |-> [b EXCEPT !.pc = "wave", !.calls = @ + Len(slice),
                              !.waves = Noted(@, Len(slice))],
              ts |-> [j \in 1..Len(slice) |-> StartTask(slice[j], b.src, b.tgt, cfg)]]
    ELSE [b |-> BatchReturn(b), ts |-> <<>>]

\* the head of the for loop: the test of i, the test of the token, then the
\* slice and the convertFile calls, each of which reads the settings cfg
LoopHead(b, cfg) ==
    IF b.i < b.totalFiles /\ ~b.cancel
    THEN LET slice == Slice(b.files, b.i, b.i + b.batchSize)
         IN  [b |-> [b EXCEPT !.pc = "wave", !.calls = @ + Len(slice),
                              !.waves = Noted(@, Len(slice))],
              ts |-> [j \in 1..Len(slice) |-> StartTask(slice[j], b.src, b.tgt, cfg)]]
    ELSE [b |-> BatchReturn(b), ts |-> <<>>]

\* how many of the results rs have the given success and skipped
Count(rs, success, skipped) ==
    Cardinality({k \in DOMAIN rs : rs[k].success = success /\ rs[k].skipped = skipped})

\* results pushed last first, as if in the order of completion
TallyLastFirst(b, rs) ==
    [b EXCEPT !.results = @ \o [k \in 1..Len(rs) |-> rs[Len(rs) + 1 - k]],
              !.processed = @ + Len(rs),
              !.converted = @ + Count(rs, TRUE, FALSE),
              !.skipped = @ + Count(rs, TRUE, TRUE) + Count(rs, FALSE, TRUE),
              !.errors = @ + Count(rs, FALSE, FALSE),
              !.i = Max(@ + b.batchSize, -b.totalFiles)]

\* statistics that count every failure as an error
TallyBySuccess(b, rs) ==
    [b EXCEPT !.results = @ \o rs,
              !.processed = @ + Len(rs),
              !.converted = @ + Count(rs, TRUE, FALSE),
              !.skipped = @ + Count(rs, TRUE, TRUE),
              !.errors = @ + Count(rs, FALSE, FALSE) + Count(rs, FALSE, TRUE),
              !.i = Max(@ + b.batchSize, -b.totalFiles)]

\* "Update statistics" after a wave with the results rs, and i += batchSize
\* (an i below -totalFiles slices and compares as -totalFiles does)
Tally(b, rs) ==
    [b EXCEPT !.results = @ \o rs,
              !.processed = @ + Len(rs),
              !.converted = @ + Count(rs, TRUE, FALSE),
              !.skipped = @ + Count(rs, TRUE, TRUE) + Count(rs, FALSE, TRUE),
              !.errors = @ + Count(rs, FALSE, FALSE),
              !.i = Max(@ + b.batchSize, -b.totalFiles)]

\* "Update progress": progress.report with increment
\* (batchSize / totalFiles) * 100
Report(b) == [b EXCEPT !.reports = Noted(@, b.batchSize)]

BatchIdle == <<fs, now, config, hist, undo, limits>>

\* a batch command handler up to the confirmation dialog: it stats the
\* selected uris, walks the directories among them, and calls
\* processMultipleFiles unless there is nothing to process
CmdBatch ==
    /\ cmd = "idle"
    /\ ncmd < limits.cmds
    /\ ncmd' = ncmd + 1
    /\ tasks' = <<>>
    /\ \E uris \in Selections, a \in BatchArgs, entries \in DirOrders(DOMAIN fs),
          statOk \in IoOutcomes, readOk \in IoOutcomes :
        LET filesToProcess == FilesToProcess(uris, entries, config, readOk)
        IN  /\ statOk \/ readOk
            /\ Fault(statOk /\ readOk)
            /\ IF ~statOk \/ filesToProcess = <<>>
               THEN /\ batch' = NoBatch
                    /\ cmd' = "idle"
               ELSE /\ batch' = [NoBatch EXCEPT !.pc = "confirm", !.files = filesToProcess,
                                                !.src = a[1], !.tgt = a[2], !.cfg = config,
                                                !.totalFiles = Len(filesToProcess),
                                                !.fs0 = fs]
                    /\ cmd' = "batch"
    /\ UNCHANGED BatchIdle

\* a refusal that returns the counters as they stand
DeclinedWithTotals(b) == BatchReturn(b)

\* "if (!confirmed)": the all-zero result
Declined(b) == [b EXCEPT !.pc = "ended", !.returned = TRUE, !.ret = NoBatchResult]

\* the user answers showPreConversionDialog; on 'Continue' withProgress runs
\* the callback up to its first await
BatchConfirm ==
    /\ batch.pc = "confirm"
    /\ \E confirmed \in BOOLEAN :
        IF ~confirmed
        THEN /\ batch' = Declined(batch)
             /\ tasks' = <<>>
        ELSE LET b == [batch EXCEPT !.confirmed = TRUE,
                          !.batchSize = BatchSize(batch.cfg.batchConcurrency,
                                                  batch.totalFiles)]
             IN  /\ batch' = LoopHead(b, config).b
                 /\ tasks' = LoopHead(b, config).ts
    /\ UNCHANGED <<faults, cmd, ncmd>>
    /\ UNCHANGED BatchIdle

\* await Promise.all(batchPromises) ends: with the results in the order of
\* the slice, and the loop goes on to its next pass; or with the rejection of
\* a promise, which leaves processMultipleFiles
WaveDone ==
    /\ batch.pc = "wave"
    /\ WaveSettled(tasks)
    /\ IF \E j \in DOMAIN tasks : tasks[j].pc = "rejected"
       THEN /\ batch' = [batch EXCEPT !.pc = "ended"]
            /\ tasks' = <<>>
       ELSE LET b == Report(Tally(batch, [j \in DOMAIN tasks |-> tasks[j].result]))
            IN  /\ batch' = LoopHead(b, config).b
                /\ tasks' = LoopHead(b, config).ts
    /\ UNCHANGED <<faults, cmd, ncmd>>
    /\ UNCHANGED BatchIdle

\* the user presses 'Cancel' on the progress notification
Cancel ==
    /\ batch.pc = "wave"
    /\ ~batch.cancel
    /\ batch' = [batch EXCEPT !.cancel = TRUE, !.cancelAt = Len(batch.waves),
                              !.cancelLive = \E j \in DOMAIN tasks :
                                                 tasks[j].pc \notin {"done", "rejected"}]
    /\ UNCHANGED <<faults, cmd, ncmd, tasks>>
    /\ UNCHANGED BatchIdle

\* the settings the user may change to while a batch is running
EditedConfigs ==
    { [batch.cfg EXCEPT !.createBackup = ~@],
      [batch.cfg EXCEPT !.excludePatterns = << <<"b", ".", "*">> >>],
      [batch.cfg EXCEPT !.batchConcurrency = @ + 1] }

\* the user changes the settings while the batch is running: getConfig reads
\* the workspace configuration anew at every call
ChangeConfig ==
    /\ limits.edits
    /\ batch.pc = "wave"
    /\ config = batch.cfg
    /\ \E c \in EditedConfigs : config' = c
    /\ UNCHANGED <<fs, now, faults, tasks, cmd, hist, undo, batch, ncmd, limits>>

\* the handler goes on after processMultipleFiles: showConversionResults, or
\* its catch block
CmdBatchReturn ==
    /\ cmd = "batch"
    /\ batch.pc = "ended"
    /\ batch' = [batch EXCEPT !.pc = "idle"]
    /\ cmd' = "idle"
    /\ UNCHANGED <<faults, ncmd, tasks>>
    /\ UNCHANGED BatchIdle

(***************************************************************************)
(* SpecBatch: the batch commands on a folder                               *)
(***************************************************************************)

MaxConc == 3

ManyFiles == 12

\* the k-th of many object files
ObjPath(k) == ToStr(k) \o <<".", "o">>

\* a.t was converted from Big5 to UTF-8 before and a.t.bak is its backup
FolderFs(withBackup) ==
    [q \in {P, B} \cup (IF withBackup THEN {BakPath(P)} ELSE {}) |->
        IF q = P THEN [data |-> IF withBackup THEN <<228, 184, 173>> ELSE <<164, 164>>,
                       mtime |-> 1]
        ELSE IF q = B THEN [data |-> <<65>>, mtime |-> 1]
        ELSE [data |-> <<164, 164>>, mtime |-> 1]]

BatchPatternLists ==
    { << <<"*", ".", "s", "o">> >>,
      << <<"b", ".", "*">> >>,
      << <<"a", ".", "*">>, <<"(">> >> }

\* a folder of two text files, with or without a backup, under any
\* concurrency, no I/O failure; the writes of the batch all get the same time
\* stamp
InitFolder ==
    /\ \E withBackup \in BOOLEAN : fs = FolderFs(withBackup)
    /\ \E c \in 1..MaxConc, pl \in BatchPatternLists :
        config = [batchConcurrency |-> c, createBackup |-> TRUE, excludePatterns |-> pl]
    /\ limits = [faults |-> 0, cmds |-> 1, edits |-> FALSE]
    /\ Rest(MaxClock)

\* the same folder under concurrency 2, with I/O failures
InitFaulty ==
    /\ \E withBackup \in BOOLEAN : fs = FolderFs(withBackup)
    /\ config = [DefaultConfig EXCEPT !.batchConcurrency = 2]
    /\ \E f \in 1..MaxFaults : limits = [faults |-> f, cmds |-> 1, edits |-> FALSE]
    /\ Rest(MaxClock)

\* a folder of many object files, under the default settings
InitMany ==
    /\ fs = [q \in {ObjPath(k) : k \in 1..ManyFiles} |-> [data |-> <<65>>, mtime |-> 1]]
    /\ config = DefaultConfig
    /\ limits = [faults |-> 0, cmds |-> 1, edits |-> FALSE]
    /\ Rest(1)

\* the folder without backup, one file at a time, and the user may change the
\* settings during the batch
InitEdits ==
    /\ fs = FolderFs(FALSE)
    /\ config = [DefaultConfig EXCEPT !.batchConcurrency = 1]
    /\ limits = [faults |-> 0, cmds |-> 1, edits |-> TRUE]
    /\ Rest(MaxClock)

\* a folder where a.t is a file over 100MB
InitHugeFolder ==
    /\ fs = [FolderFs(FALSE) EXCEPT ![P] = [data |-> HugeData, mtime |-> 1]]
    /\ config = [DefaultConfig EXCEPT !.batchConcurrency = 2]
    /\ limits = [faults |-> 0, cmds |-> 1, edits |-> FALSE]
    /\ Rest(MaxClock - 1)

\* the folder under a concurrency that is not positive: the settings schema
\* asks for a number and no more
InitSigned ==
    /\ fs = FolderFs(FALSE)
    /\ \E c \in {-2, -1, 0} : config = [DefaultConfig EXCEPT !.batchConcurrency = c]
    /\ limits = [faults |-> 0, cmds |-> 1, edits |-> FALSE]
    /\ Rest(MaxClock)

InitBatch == InitFolder \/ InitFaulty \/ InitMany \/ InitEdits \/ InitHugeFolder

NextBatch ==
    \/ CmdBatch
    \/ BatchConfirm
    \/ \E i \in DOMAIN tasks : TaskStat(i)
    \/ \E i \in DOMAIN tasks : TaskRead(i)
    \/ \E i \in DOMAIN tasks : TaskPrompt(i)
    \/ \E i \in DOMAIN tasks : TaskDetect(i)
    \/ \E i \in DOMAIN tasks : TaskBkRead(i)
    \/ \E i \in DOMAIN tasks : TaskBkStat(i)
    \/ \E i \in DOMAIN tasks : TaskBkWrite(i)
    \/ \E i \in DOMAIN tasks : TaskWrite(i)
    \/ WaveDone
    \/ Cancel
    \/ ChangeConfig
    \/ CmdBatchReturn

SpecBatch == InitBatch /\ [][NextBatch]_vars

\* the wave has a step to take that changes the state: a conversion has its
\* next await to pass, or Promise.all has settled. On empty slices the loop
\* goes round and WaveDone leaves every variable as it is
WaveEnabled ==
    /\ batch.pc = "wave"
    /\ ~ /\ tasks = <<>> /\ ~batch.cancel
         /\ Max(batch.i + batch.batchSize, -batch.totalFiles) = batch.i
         /\ Len(batch.waves) = MaxWaves /\ Len(batch.reports) = MaxWaves

\* the batch commands under any concurrency, with weak fairness of the answer
\* to the confirmation dialog, of the return to the handler and of the steps
\* of a wave: every step but 'Cancel' and a change of the settings, which need
\* never come. For the steps of a wave the fairness is written out with
\* their enabling condition WaveEnabled
SpecBatchFair ==
    /\ InitBatch \/ InitSigned
    /\ [][NextBatch]_vars
    /\ WF_vars(BatchConfirm)
    /\ WF_vars(CmdBatchReturn)
    /\ \/ []<>(~WaveEnabled)
       \/ []<><<NextBatch /\ batch.pc = "wave" /\ batch'.cancel = batch.cancel
                          /\ config' = config>>_vars

(***************************************************************************)
(* SpecDetect: detectEncoding on its own, as the preview of                *)
(* convertBetweenEncodings calls it                                        *)
(***************************************************************************)

MaxBuffer == 4

\* an ASCII letter, a NUL, a lead byte of the double-byte tables, a
\* half-width katakana of Shift_JIS, a byte that no double-byte codec takes
DetectBytes == {65, 0, 164, 161, 255}

RECURSIVE Buffers(_)
\* the buffers of n of these bytes
Buffers(n) ==
    IF n = 0 THEN {<<>>}
    ELSE {Append(b, x) : b \in Buffers(n - 1), x \in DetectBytes}

\* a text of length bytes, the first bad of them 0xFF and the others 'A'
Padded(bad, length) == [i \in 1..length |-> IF i <= bad THEN 255 ELSE 65]

\* the lengths on both sides of where the threshold of the heuristic changes
LongLengths == {19, 20, 99, 100}

BadCounts == {0, 1, 2, 4, 5, 8, 9, 10}

DetectBuffers ==
    UNION {Buffers(n) : n \in 0..MaxBuffer}
        \cup {Padded(bad, length) : bad \in BadCounts, length \in LongLengths}

\* the activation of detectEncoding: the answers its collaborators will give
\* are fixed when it starts
StartDetect(uri, hint, js, aux) ==
    [uri |-> uri, pc |-> "dread", hint |-> hint, js |-> js, aux |-> aux,
     raw |-> <<>>, detection |-> NoDetection, detRead |-> None]

InitDetect ==
    /\ \E data \in DetectBuffers : fs = InitFs(data, 0, 1)
    /\ config = DefaultConfig
    /\ limits = [faults |-> MaxFaults, cmds |-> 1, edits |-> FALSE]
    /\ Rest(1)

\* convertBetweenEncodings calls detectEncoding(targetUri) for its preview
CmdDetect ==
    /\ cmd = "idle"
    /\ ncmd < limits.cmds
    /\ \E h \in EditorHints, j \in JschardetResults, a \in DetectFileResults :
        tasks' = <<StartDetect(FileUri(P), h, j, a)>>
    /\ cmd' = "detect"
    /\ ncmd' = ncmd + 1
    /\ UNCHANGED <<fs, now, config, faults, hist, undo, batch, limits>>

\* detectEncoding: await readFile(uri), and all that follows it
DetectRead ==
    /\ cmd = "detect"
    /\ At(1, "dread")
    /\ \E ok \in IoOutcomes :
        LET t == tasks[1]
            p == t.uri.fsPath
        IN  /\ tasks' = <<IF ok /\ Exists(fs, p)
                          THEN [t EXCEPT !.pc = "dreturned", !.raw = fs[p].data,
                                         !.detection = DetectBuffer(fs[p].data, t.hint,
                                                                    t.js, t.aux),
                                         !.detRead = "ok"]
                          ELSE [t EXCEPT !.pc = "dreturned", !.detection = DetectFallback,
                                         !.detRead = "failed"]>>
            /\ Fault(ok)
    /\ UNCHANGED <<fs, now, config, cmd, hist, undo, batch, ncmd, limits>>

NextDetect == CmdDetect \/ DetectRead

SpecDetect == InitDetect /\ [][NextDetect]_vars

(***************************************************************************)
(* shouldProcessFile on its own: the settings hold any short list of       *)
(* exclusion patterns, and the function is applied to one uri              *)
(***************************************************************************)

MaxPatterns == 2

\* a path that starts like the name of an untitled document
ClassifyUntitledName == <<"u", "n", "t", "i", "t", "l", "e", "d", ":", "a">>

\* file names with and without an extension, in either case
ClassifyNames ==
    { <<"l", "i", "b", ".", "s", "o">>,
      <<"r", "e", "s", "o", "u", "r", "c", "e", ".", "t", "s">>,
      <<"A", ".", "S", "O">>,
      <<"a", ".", "t">>,
      <<"a", ".", "t", "s">>,
      <<"s", "o">>,
      ClassifyUntitledName }

\* what a user may put in encodingConverter.excludePatterns
ClassifyPatterns ==
    { <<"*", ".", "s", "o">>,
      <<"*", ".", "t">>,
      <<"?", ".", "t">>,
      <<"a", "*">>,
      <<"t", "s">>,
      <<"(">> }

InitClassify ==
    /\ fs = InitFs(<<65>>, 0, 1)
    /\ \E n \in 0..MaxPatterns : \E l \in [1..n -> ClassifyPatterns] :
        config = [DefaultConfig EXCEPT !.excludePatterns = l]
    /\ limits = [faults |-> 0, cmds |-> 1, edits |-> FALSE]
    /\ Rest(1)

\* getFilesInDirectory asks shouldProcessFile(childUri, config) about a child
Classify ==
    /\ cmd = "idle"
    /\ ncmd < limits.cmds
    /\ \E scheme \in {"file", "untitled"}, name \in ClassifyNames :
        LET uri == [scheme |-> scheme, fsPath |-> name]
        IN  tasks' = <<[uri |-> uri, pc |-> "classified",
                        check |-> shouldProcessFile(uri, config)]>>
    /\ cmd' = "classify"
    /\ ncmd' = ncmd + 1
    /\ UNCHANGED <<fs, now, config, faults, hist, undo, batch, limits>>

SpecClassify == InitClassify /\ [][Classify]_vars

(***************************************************************************)
(* undoBatchConversion: 'Undo All' on the results of a batch; batch holds  *)
(* the locals of undoBatchConversion                                       *)
(***************************************************************************)

MaxResults == 3

\* results of a batch over a.t and b.t: converted with a backup, converted
\* without one, skipped as already in the target encoding, failed
UndoResults ==
    { [NoResult EXCEPT !.kind = "result", !.filePath = P, !.success = TRUE,
                       !.backupCreated = TRUE],
      [NoResult EXCEPT !.kind = "result", !.filePath = B, !.success = TRUE,
                       !.backupCreated = TRUE],
      [NoResult EXCEPT !.kind = "result", !.filePath = P, !.success = TRUE],
      [NoResult EXCEPT !.kind = "result", !.filePath = B, !.success = TRUE,
                       !.skipped = TRUE, !.skipReason = <<"already">>],
      [NoResult EXCEPT !.kind = "result", !.filePath = P, !.error = TRUE] }

\* a filter that takes every result that succeeded
EligibleAnySuccess(r) == r.success

\* results.filter(r => r.success && !r.skipped && r.backupCreated)
Eligible(r) == r.success /\ ~r.skipped /\ r.backupCreated

\* the two files, each with its backup or without; attempts, for the
\* properties, lists the paths undoConversion was called with
InitUndoBatch ==
    /\ \E bk \in SUBSET {P, B} :
        fs = [q \in {P, B} \cup {BakPath(f) : f \in bk} |->
                 IF q \in {P, B} THEN [data |-> <<228, 184, 173>>, mtime |-> 2]
                 ELSE [data |-> <<164, 164>>, mtime |-> 1]]
    /\ \E n \in 0..MaxResults : \E rs \in [1..n -> UndoResults] :
        batch = [pc |-> "offered", results |-> rs, convertedFiles |-> <<>>, i |-> 0,
                 undone |-> 0, failed |-> 0, confirmed |-> FALSE, message |-> "none",
                 fs0 |-> fs, attempts |-> <<>>]
    /\ config = DefaultConfig
    /\ limits = [faults |-> MaxFaults, cmds |-> 1, edits |-> FALSE]
    /\ now = 2 /\ faults = 0 /\ tasks = <<>> /\ cmd = "idle" /\ hist = <<>>
    /\ undo = NoUndo /\ ncmd = 0

\* the user picks 'Undo All' in the summary: undoBatchConversion up to its
\* first await
CmdUndoBatch ==
    /\ cmd = "idle"
    /\ batch.pc = "offered"
    /\ LET convertedFiles == SelectSeq(batch.results, Eligible)
       IN  batch' = IF Len(convertedFiles) = 0
                    THEN [batch EXCEPT !.pc = "ended", !.message = "No files to undo"]
                    ELSE [batch EXCEPT !.pc = "confirm",
                                       !.convertedFiles = convertedFiles]
    /\ cmd' = "undoall"
    /\ UNCHANGED <<fs, now, config, faults, tasks, hist, undo, ncmd, limits>>

\* the call of undoConversion for convertedFiles[k], or the summary when the
\* loop has ended
UndoBatchCall(b, k) ==
    IF k > Len(b.convertedFiles)
    THEN <<[b EXCEPT !.pc = "ended", !.message = "Undo completed"], NoUndo>>
    ELSE <<[b EXCEPT !.pc = "await",
                     !.attempts = Append(@, b.convertedFiles[k].filePath)],
           [NoUndo EXCEPT !.pc = "find", !.filePath = b.convertedFiles[k].filePath,
                          !.fs0 = fs]>>

\* await showWarningMessage(..., 'Yes, Undo All', 'Cancel')
UndoBatchConfirm ==
    /\ batch.pc = "confirm"
    /\ \E confirmed \in {"Yes, Undo All", "Cancel", None} :
        LET call == UndoBatchCall([batch EXCEPT !.confirmed = TRUE], 1)
        IN  IF confirmed = "Yes, Undo All"
            THEN batch' = call[1] /\ undo' = call[2]
            ELSE batch' = [batch EXCEPT !.pc = "ended"] /\ undo' = undo
    /\ UNCHANGED <<fs, now, config, faults, tasks, cmd, hist, ncmd, limits>>

\* undoConversion has returned: the counters, and the next round of the loop
UndoBatchNext ==
    /\ batch.pc = "await"
    /\ undo.pc = "done"
    /\ LET b == [batch EXCEPT !.i = @ + 1,
                               !.undone = IF undo.ret THEN @ + 1 ELSE @,
                               !.failed = IF undo.ret THEN @ ELSE @ + 1]
           call == UndoBatchCall(b, b.i + 1)
       IN  batch' = call[1] /\ undo' = call[2]
    /\ UNCHANGED <<fs, now, config, faults, tasks, cmd, hist, ncmd, limits>>

NextUndoBatch ==
    \/ CmdUndoBatch
    \/ UndoBatchConfirm
    \/ UndoFind
    \/ UndoRead
    \/ UndoWrite
    \/ UndoDelete
    \/ UndoBatchNext

SpecUndoBatch == InitUndoBatch /\ [][NextUndoBatch]_vars

(***************************************************************************)
(* Properties of the single-file commands                                  *)
(***************************************************************************)

\* the backups of P among the files f
Backups(f) == (DOMAIN f) \ {P}

\* conversion k of the history has returned
Returned(k) == k < Len(hist) \/ cmd # "convert"

\* the files when conversion k returned: no undo follows a skipped conversion
FsAfter(k) == IF k < Len(hist) THEN hist[k + 1].fs0 ELSE fs

\* C1: createBackup never overwrites an existing backup: with P.bak, P.bak.1,
\* ..., P.bak.(N-1) existing, for every N also at or beyond the probe cap,
\* once createBackup has returned without an I/O failure P.bak.N holds the
\* original bytes of P and every older backup holds the bytes it held
C1_NeverOverwrites ==
    \A i \in DOMAIN tasks :
        (cmd = "convert" /\ faults = 0 /\ tasks[i].bkReturned) =>
            LET f0 == Last.fs0
                N == Cardinality(Backups(f0))
            IN  /\ Exists(fs, Candidate(P, N))
                /\ fs[Candidate(P, N)].data = Last.pre
                /\ \A q \in Backups(f0) : Exists(fs, q) /\ fs[q].data = f0[q].data

\* the backup the last conversion wrote is strictly newer than every backup
\* that was there before, none of which has the time stamp 0
NewestBackup ==
    \A q \in Backups(Last.fs0) :
        0 < Last.fs0[q].mtime /\ Last.fs0[q].mtime < Last.task.bkTime

\* C2: undo restores exactly: whatever backups of P existed beforehand, after
\* a conversion that reported backupCreated the undo returns true, P holds
\* its pre-conversion bytes and the backup of that conversion is gone
C2_UndoRestoresExactly ==
    (cmd = "undo" /\ undo.pc = "done" /\ faults = 0 /\ NewestBackup) =>
        /\ undo.ret
        /\ fs[P].data = Last.pre
        /\ ~Exists(fs, Last.task.backupPath)

\* q is the name of a backup of p: p.bak, or p.bak. and more
IsBackupOf(q, p) ==
    /\ Len(q) >= Len(p) + 4
    /\ SubSeq(q, 1, Len(p) + 4) = p \o <<".", "b", "a", "k">>
    /\ Len(q) > Len(p) + 4 => q[Len(p) + 5] = "."

\* C3: backup precedes mutation: with createBackup enabled the original path
\* is written only after createBackup has returned, and when backupCreated is
\* true a backup file holding the bytes the file had when the conversion
\* started exists at the moment the original path is about to be overwritten
C3_BackupPrecedesMutation ==
    \A i \in DOMAIN tasks :
        LET t == tasks[i]
        IN  (t.cfg.createBackup /\ (t.pc = "write" \/ t.wrote)) =>
                /\ t.bkReturned
                /\ (t.pc = "write" /\ t.backupCreated) =>
                       \E q \in DOMAIN fs :
                           IsBackupOf(q, t.uri.fsPath) /\ fs[q].data = t.raw

\* C4: convert never throws: every activation resolves to a ConversionResult,
\* whatever the excludePatterns are and whatever I/O fails, and a failure is
\* reported as success = false with the error set
C4_NeverThrows ==
    \A i \in DOMAIN tasks :
        /\ tasks[i].pc # "rejected"
        /\ (tasks[i].pc = "done" /\ ~tasks[i].result.success /\ ~tasks[i].result.skipped)
               => tasks[i].result.error

\* C6: no partial write: when the decode or the encode fails no write to the
\* original path is attempted, the file holds the bytes it held before the
\* call, and the result is success = false with an error
C6_NoPartialWrite ==
    \A i \in DOMAIN tasks :
        LET t == tasks[i]
        IN  t.codecFailed =>
                /\ t.pc = "done" /\ ~t.wrote
                /\ ~t.result.success /\ t.result.error
                /\ cmd = "convert" => fs[t.uri.fsPath].data = Last.pre

C6_Witness ==
    \E i \in DOMAIN tasks :
        /\ tasks[i].codecFailed /\ tasks[i].pc = "done"
        /\ tasks[i].backupCreated

\* decoding then re-encoding data under encoding e gives data again
RoundTrips(data, e) ==
    LET dec == IconvDecode(data, e)
    IN  dec.ok /\ IconvEncode(dec.text, e).ok /\ IconvEncode(dec.text, e).bytes = data

\* conversion k found the source encoding to be its target encoding E, and
\* the content round-trips through E
NoOpCase(k) ==
    LET t == hist[k].task
    IN  /\ t.pc = "done" /\ t.detected # None
        /\ normalizeEncoding(t.detected) = normalizeEncoding(t.tgt)
        /\ RoundTrips(t.raw, normalizeEncoding(t.tgt))

\* C7: idempotence of the no-op detection: a conversion of round-tripping
\* content whose source encoding is the target is skipped as 'already in
\* target encoding', writes nothing and creates no backup; repeated, it gives
\* the same result and leaves the files as they were
C7_NoOpIdempotent ==
    \A k \in DOMAIN hist :
        (Returned(k) /\ NoOpCase(k)) =>
            LET t == hist[k].task
            IN  /\ t.result.success /\ t.result.skipped
                /\ t.result.skipReason = <<"already">>
                /\ ~t.wrote /\ ~t.bkReturned
                /\ FsAfter(k) = hist[k].fs0
                /\ (k > 1 /\ NoOpCase(k - 1) /\ hist[k - 1].task.src = t.src
                          /\ hist[k - 1].task.tgt = t.tgt)
                       => t.result = hist[k - 1].task.result

C7_Witness ==
    /\ Len(hist) = 2 /\ cmd = "idle"
    /\ NoOpCase(1) /\ NoOpCase(2)
    /\ Len(hist[2].task.raw) >= 4
    /\ hist[2].task.result = hist[1].task.result
    /\ hist[2].task.result.skipped

(***************************************************************************)
(* Properties of the batch commands                                        *)
(***************************************************************************)

\* processMultipleFiles has been left after the user confirmed
Left == batch.confirmed /\ batch.pc \in {"ended", "idle"}

\* C5: failure isolation in a batch: whatever happens to one file, its
\* siblings are converted all the same and processMultipleFiles returns a
\* BatchConversionResult with one result for every file of every wave that
\* was started
C5_FailureIsolation ==
    Left =>
        /\ batch.returned
        /\ Len(batch.ret.results) = batch.calls
        /\ ~batch.cancel => batch.calls = batch.totalFiles

\* the name q holds ".bak"
IsBackupName(q) ==
    \E k \in 1..(Len(q) - 3) : SubSeq(q, k, k + 3) = <<".", "b", "a", "k">>

NoDuplicates(s) == \A i, j \in DOMAIN s : i # j => s[i] # s[j]

\* C8: backups persist untouched: no step of a conversion or of a batch, also
\* of one that walks the folder of the backup, changes the bytes of a backup
\* file or removes it (no I/O failure, no path twice in the batch)
C8_BackupsPersist ==
    [][(cmd = "batch" /\ faults' = 0 /\ NoDuplicates(batch.files)) =>
          \A q \in DOMAIN fs :
              IsBackupName(q) => (q \in DOMAIN fs' /\ fs'[q].data = fs[q].data)]_vars

\* the conversions of the wave that have not resolved
InFlight == Cardinality({j \in DOMAIN tasks : tasks[j].pc \notin {"done", "rejected"}})

\* C9: bounded concurrency: with concurrency c >= 1 and n candidates at most
\* min(c, n) conversions are in flight, every wave has min(c, n) files but
\* the last, which has the rest, and 12 files under concurrency 5 are taken
\* in the waves 5, 5, 2
C9_BoundedConcurrency ==
    LET c == batch.cfg.batchConcurrency
        n == batch.totalFiles
        w == Min(c, n)
    IN  (batch.confirmed /\ c >= 1) =>
            /\ InFlight <= w
            /\ batch.pc = "wave" => Len(tasks) = Min(w, n - batch.i)
            /\ \A k \in DOMAIN batch.waves : batch.waves[k] = Min(w, n - (k - 1) * w)
            /\ (batch.returned /\ ~batch.cancel) => (Len(batch.waves) - 1) * w < n
                                                   /\ n <= Len(batch.waves) * w
            /\ (batch.returned /\ ~batch.cancel /\ n = 12 /\ c = 5)
                   => batch.waves = <<5, 5, 2>>

C9_Witness ==
    /\ batch.pc = "wave" /\ batch.i > 0
    /\ batch.totalFiles > batch.cfg.batchConcurrency
    /\ InFlight = batch.cfg.batchConcurrency
    /\ InFlight >= 2

\* C10: waves are strictly sequential: convertFile is called for the files
\* of a wave only when every conversion of the wave before has resolved, and
\* the activations there are belong to the files of the current wave
C10_WavesSequential ==
    [][/\ batch'.calls > batch.calls => InFlight = 0
       /\ batch.pc = "wave" =>
              /\ batch.calls = batch.i + Len(tasks)
              /\ \A j \in DOMAIN tasks : tasks[j].uri = batch.files[batch.i + j]]_vars

C10_Witness ==
    /\ batch.pc = "wave" /\ batch.i > 0
    /\ Len(batch.results) = batch.i
    /\ \E j \in DOMAIN tasks : tasks[j].pc \in {"bkwrite", "write"}
    /\ \E j \in DOMAIN tasks : tasks[j].pc = "done"

\* a cancellation was requested while a conversion of the wave was pending,
\* and processMultipleFiles has been left
Cancelled == Left /\ batch.cancel /\ batch.cancelLive

\* the paths convertFile was called for
Started == {batch.files[k].fsPath : k \in 1..batch.calls}

\* the file p is as it was when the command started
Untouched(p) == Exists(fs, p) /\ fs[p] = batch.fs0[p]

Accounted(r) ==
    /\ r.processed = r.converted + r.skipped + r.errors
    /\ r.processed = Len(r.results)
    /\ r.processed <= r.totalFiles
    /\ r.skipped = Cardinality({k \in DOMAIN r.results : r.results[k].skipped})
    /\ r.converted = Cardinality({k \in DOMAIN r.results :
                                      r.results[k].success /\ ~r.results[k].skipped})
    /\ r.errors = Cardinality({k \in DOMAIN r.results :
                                   ~r.results[k].success /\ ~r.results[k].skipped})

\* C12: batch accounting invariant: between the waves and in the returned
\* BatchResult processed = converted + skipped + errors = Len(results) and
\* processed <= totalFiles; a result with skipped = true counts as skipped
\* whatever its success, a success without skip as converted, a failure
\* without skip as an error
C12_BatchAccounting ==
    /\ batch.pc \in {"wave", "ended"} => Accounted(batch)
    /\ batch.returned => Accounted(batch.ret)

C12_Witness ==
    /\ batch.returned /\ Len(batch.waves) > 1
    /\ batch.ret.converted > 0
    /\ \E k \in DOMAIN batch.ret.results :
           ~batch.ret.results[k].success /\ batch.ret.results[k].skipped

\* C13: single appearance per batch: the candidate list handed to
\* processMultipleFiles never holds the same path twice, whatever files and
\* directories are selected, and no two conversions of a wave are on the same
\* path
C13_SingleAppearance ==
    /\ NoDuplicates(batch.files)
    /\ \A i, j \in DOMAIN tasks : i # j => tasks[i].uri.fsPath # tasks[j].uri.fsPath

\* C14: a declined confirmation has no effect: processMultipleFiles returns
\* totalFiles, processed, converted, skipped and errors all 0 and no results,
\* no convertFile call is made and the files are as they were
C14_DeclinedNoEffect ==
    (batch.returned /\ ~batch.confirmed) =>
        /\ batch.ret.totalFiles = 0 /\ batch.ret.processed = 0
        /\ batch.ret.converted = 0 /\ batch.ret.skipped = 0 /\ batch.ret.errors = 0
        /\ batch.ret.results = <<>>
        /\ batch.calls = 0 /\ batch.waves = <<>> /\ tasks = <<>>
        /\ fs = batch.fs0

C14_Witness ==
    /\ batch.returned /\ ~batch.confirmed /\ batch.pc = "idle"
    /\ Len(batch.files) > 1

\* C15: the configuration is immutable for the duration of a batch: every
\* file of the batch is processed under the createBackup, excludePatterns and
\* concurrency that were in force when the batch command started, whatever
\* change is made while the batch is running
C15_ConfigImmutable ==
    batch.pc = "wave" => \A i \in DOMAIN tasks : tasks[i].cfg = batch.cfg

\* C16: no interactive prompt is raised from inside a wave: while the
\* conversions of a wave are in flight none of them is waiting for an answer
\* of the user, whatever the size of its file
C16_NoPromptInWave ==
    batch.pc = "wave" => \A i \in DOMAIN tasks : tasks[i].pc # "prompt"

(***************************************************************************)
(* Properties of detectEncoding                                            *)
(***************************************************************************)

\* the activations of convertFile that called detectEncoding and got its
\* answer: those in flight and those of the history
Detections ==
    {tasks[i] : i \in {j \in DOMAIN tasks : tasks[j].detRead # None}}
        \cup {hist[k].task : k \in {j \in DOMAIN hist : hist[j].task.detRead # None}}

DetectionMethods ==
    {"empty-file", "small-ascii", "small-file", "vscode", "jschardet",
     "detect-file-encoding-and-language", "heuristic", "default", "fallback"}

\* C17: detect never throws: whatever the file and whichever of the read, the
\* statistical detector, the auxiliary detector or a candidate decode fails,
\* detectEncoding returns a result with a confidence in [0, 1] (in hundredths
\* here); a failed read gives exactly {utf-8, 0.1, fallback}, and so does every
\* result of method fallback
C17_DetectNeverThrows ==
    \A t \in Detections :
        /\ t.pc # "rejected"
        /\ t.detection.encoding # None
        /\ t.detection.confidence \in 0..100
        /\ t.detection.method \in DetectionMethods
        /\ t.detected = t.detection.encoding
        /\ (t.detRead = "failed" \/ t.detection.method = "fallback") =>
               t.detection = [encoding |-> "utf-8", confidence |-> 10, method |-> "fallback"]

C17_Witness ==
    \E t \in Detections : t.detRead = "failed" /\ t.pc = "done" /\ t.result.success

\* conversion k of the history has returned, was not undone, and no I/O
\* operation failed
Settled(k) ==
    /\ Returned(k) /\ ~hist[k].undone /\ undo.pc = "none"
    /\ faults = 0

\* C18: the Big5 two-byte scenario: a file of the bytes A4 A4 converted with
\* automatic detection to UTF-8, backups enabled: detection says big5 by the
\* heuristic method, the file is rewritten with the UTF-8 bytes of the
\* character, and <path>.bak holds the original two bytes
C18_Big5TwoBytes ==
    \A k \in DOMAIN hist :
        LET t == hist[k].task
        IN  (/\ Settled(k) /\ k = Len(hist)
             /\ hist[k].pre = <<164, 164>> /\ hist[k].fs0 = InitFs(<<164, 164>>, 0, 1)
             /\ t.src = None /\ t.tgt \in {"utf8", "utf-8"}
             /\ t.cfg.createBackup /\ t.detRead # None)
            => /\ t.detection.encoding = "big5"
               /\ t.detection.method = "heuristic"
               /\ fs[P].data = <<228, 184, 173>>
               /\ Exists(fs, BakPath(P))
               /\ fs[BakPath(P)].data = <<164, 164>>

\* C19: the empty-file scenario: for a zero-byte file detectEncoding returns
\* {utf-8, 1.0, empty-file}, and convertFile with automatic detection and the
\* target 'utf8' or 'utf-8' returns a skipped 'already in target encoding'
\* result, writes nothing and creates no backup
C19_EmptyFile ==
    \A k \in DOMAIN hist :
        LET t == hist[k].task
        IN  (/\ Returned(k)
             /\ hist[k].pre = <<>> /\ t.detRead = "ok"
             /\ t.tgt \in {"utf8", "utf-8"})
            => /\ t.detection = [encoding |-> "utf-8", confidence |-> 100,
                                 method |-> "empty-file"]
               /\ t.pc = "done"
               /\ t.result.success /\ t.result.skipped
               /\ t.result.skipReason = <<"already">>
               /\ ~t.wrote /\ ~t.bkReturned /\ ~t.backupCreated
               /\ FsAfter(k) = hist[k].fs0

C19_Witness ==
    \E k \in DOMAIN hist :
        /\ Returned(k) /\ hist[k].pre = <<>> /\ hist[k].task.detRead = "ok"
        /\ hist[k].task.tgt = "utf-8" /\ hist[k].task.cfg.createBackup
        /\ hist[k].task.result.skipped

\* C20: clean ASCII is never assigned a heuristic candidate: for a buffer of
\* four bytes or more, all of them 7-bit ASCII, and whatever the statistical
\* and the auxiliary detector answer, detectEncoding does not return one of
\* big5, gbk, gb2312, shift_jis, euc-kr, iso-8859-1, windows-1252 by its
\* heuristic stage
C20_AsciiNotHeuristic ==
    \A t \in Detections :
        (/\ t.detRead = "ok" /\ Len(t.raw) >= 4
         /\ \A i \in DOMAIN t.raw : t.raw[i] < 128)
        => ~(/\ t.detection.method = "heuristic"
             /\ t.detection.encoding \in
                    {"big5", "gbk", "gb2312", "shift_jis", "euc-kr", "iso-8859-1",
                     "windows-1252"})

(***************************************************************************)
(* Properties of createBackup, of the detector stages and the classifier   *)
(***************************************************************************)

\* C21: the probe cap fails loudly: when the probe of createBackup reaches
\* its bound, createBackup returns false and writes no backup file: no file
\* is added and no older backup is changed
C21_ProbeCapFailsLoudly ==
    \A i \in DOMAIN tasks :
        (cmd = "convert" /\ tasks[i].bkReturned /\ tasks[i].counter > ProbeCap) =>
            /\ ~tasks[i].backupCreated
            /\ Backups(fs) = Backups(Last.fs0)
            /\ \A q \in Backups(Last.fs0) : fs[q] = Last.fs0[q]

RECURSIVE SumSeq(_)
SumSeq(s) == IF s = <<>> THEN 0 ELSE Head(s) + SumSeq(Tail(s))

\* C22: progress is cumulative processed / total: after each wave the
\* increments reported so far add up to processed / totalFiles (both times
\* 100, here both as numbers of files), so never to more than 100%, there is
\* one report for every wave, and once all files are processed the total is
\* exactly 100%
C22_ProgressCumulative ==
    (batch.confirmed /\ batch.pc \in {"wave", "ended"}) =>
        /\ SumSeq(batch.reports) = batch.processed
        /\ SumSeq(batch.reports) <= batch.totalFiles
        /\ (batch.returned /\ batch.processed = batch.totalFiles) =>
               SumSeq(batch.reports) = batch.totalFiles

\* the name e, where there is one, is what normalizeEncoding makes of it
Normalized(e) == e # None => normalizeEncoding(e) = e

\* C23: encoding names are always normalized: the encoding of a detection and
\* the originalEncoding and targetEncoding of a skipped, converted or failed
\* result are fixed points of normalizeEncoding, whatever spelling the caller
\* gave
C23_NamesNormalized ==
    \A k \in DOMAIN hist :
        LET t == hist[k].task
        IN  (Returned(k) /\ t.pc = "done") =>
                /\ Normalized(t.detection.encoding)
                /\ Normalized(t.result.originalEncoding)
                /\ Normalized(t.result.targetEncoding)

\* the detectEncoding call has returned after a good read
DetectReturned == cmd = "detect" /\ At(1, "dreturned") /\ tasks[1].detRead = "ok"

\* the stages that accept, from the answers of the collaborators
EmptyStage(t) == Len(t.raw) = 0

TinyStage(t) == Len(t.raw) > 0 /\ Len(t.raw) < 4

HintStage(t) == t.hint \notin {None, "utf8", "utf-8"}

StatStage(t) == ~t.js.throws /\ t.js.encoding # None /\ t.js.confidence > 70

AuxStage(t) ==
    ~t.aux.throws /\ t.aux.encoding # None /\ t.aux.encoding \notin {"UTF-8", "utf-8"}

\* C24: the detector stages are strictly ordered and the first accepting one
\* wins: empty-file, tiny-file, editor hint (non-UTF-8 only, 0.95),
\* statistical detector (confidence strictly above 0.7 only), auxiliary
\* detector (non-UTF-8 only, 0.8), heuristic round trip, default {utf-8, 0.5}
C24_StagesOrdered ==
    DetectReturned =>
        LET t == tasks[1]
            d == t.detection
        IN  IF EmptyStage(t) THEN d.method = "empty-file"
            ELSE IF TinyStage(t) THEN d.method \in {"small-ascii", "small-file"}
            ELSE IF HintStage(t) THEN d.method = "vscode" /\ d.confidence = 95
            ELSE IF StatStage(t)
            THEN d.method = "jschardet" /\ d.confidence = t.js.confidence
            ELSE IF AuxStage(t)
            THEN d.method = "detect-file-encoding-and-language" /\ d.confidence = 80
            ELSE \/ d.method = "heuristic" /\ d.confidence = 60
                 \/ d = [encoding |-> "utf-8", confidence |-> 50, method |-> "default"]

\* all three collaborators would accept, and so would the heuristic
C24_Witness ==
    /\ DetectReturned
    /\ Len(tasks[1].raw) >= 4
    /\ HintStage(tasks[1]) /\ StatStage(tasks[1]) /\ AuxStage(tasks[1])
    /\ tasks[1].detection.method = "vscode"

\* r(e): the replacement characters in the buffer decoded under candidate e
Replacements(raw, e) == ReplacementCount(IconvDecode(raw, e).text)

\* C25: heuristic round-trip acceptance: when no earlier stage accepts, the
\* result is the first candidate e, in the order big5, gbk, gb2312,
\* shift_jis, euc-kr, iso-8859-1, windows-1252, whose decode does not throw
\* and gives r(e) < T, with T = max(1, floor(0.10 * L)) for L < 100 and
\* T = floor(0.05 * L) otherwise; the counts of the candidates are not
\* compared with each other
C25_HeuristicAcceptance ==
    (/\ DetectReturned /\ Len(tasks[1].raw) >= 4
     /\ ~HintStage(tasks[1]) /\ ~StatStage(tasks[1]) /\ ~AuxStage(tasks[1])) =>
        LET raw == tasks[1].raw
            L == Len(raw)
            T == IF L < 100 THEN Max(1, L \div 10) ELSE L \div 20
            order == <<"big5", "gbk", "gb2312", "shift_jis", "euc-kr", "iso-8859-1",
                       "windows-1252">>
            accepted == {k \in DOMAIN order : /\ IconvDecode(raw, order[k]).ok
                                              /\ Replacements(raw, order[k]) < T}
        IN  IF accepted = {}
            THEN tasks[1].detection.method = "default"
            ELSE tasks[1].detection =
                     [encoding |-> order[CHOOSE k \in accepted : \A j \in accepted : k <= j],
                      confidence |-> 60, method |-> "heuristic"]

\* a buffer of 100 bytes is taken for big5 with 4 replacement characters,
\* below the threshold 5, though iso-8859-1 decodes it with none
C25_Witness ==
    /\ DetectReturned /\ Len(tasks[1].raw) = 100
    /\ tasks[1].detection.method = "heuristic"
    /\ tasks[1].detection.encoding = "big5"
    /\ Replacements(tasks[1].raw, "big5") = 4
    /\ Replacements(tasks[1].raw, "iso-8859-1") = 0

\* the uri that shouldProcessFile was asked about, and its answer
Classified == cmd = "classify" /\ tasks # <<>>

\* pattern k of the settings compiles and its expression finds a match in
\* the name
PatternHits(k, name) ==
    LET src == GlobToRegexSource(config.excludePatterns[k])
    IN  ~RegExpThrows(src) /\ RegexTest(src, name)

\* C26: the classifier decides by the first of its rules that applies: an
\* unsaved or virtual document is rejected as such, else a name that an
\* exclusion pattern hits is rejected with the first such pattern as the
\* reason, else a name whose extension, in lower case, is in the built-in
\* binary list is rejected as binary, else the file is allowed; the files
\* are not touched
C26_RuleOrder ==
    Classified =>
        LET uri == tasks[1].uri
            name == uri.fsPath
            check == tasks[1].check
            hits == {k \in DOMAIN config.excludePatterns : PatternHits(k, name)}
            first == CHOOSE k \in hits : \A j \in hits : k <= j
            expected ==
                IF uri.scheme = "untitled" \/ name = ClassifyUntitledName
                THEN <<FALSE, <<"untitled">> >>
                ELSE IF hits # {}
                THEN <<FALSE, <<"excluded", config.excludePatterns[first]>> >>
                ELSE IF LowerStr(extname(name)) \in binaryExtensions
                THEN <<FALSE, <<"binary">> >>
                ELSE <<TRUE, <<"ok">> >>
        IN  /\ ~check.throws
            /\ <<check.shouldProcess, check.reason>> = expected
            /\ fs = InitFs(<<65>>, 0, 1)

RECURSIVE GlobMatch(_, _)
\* the whole of the name s matches the glob g: '*' any run of characters,
\* '?' exactly one character, any other character only itself
GlobMatch(g, s) ==
    IF g = <<>> THEN s = <<>>
    ELSE IF Head(g) = "*"
    THEN GlobMatch(Tail(g), s) \/ (s # <<>> /\ GlobMatch(g, Tail(s)))
    ELSE /\ s # <<>>
         /\ Head(g) = "?" \/ Head(g) = Head(s)
         /\ GlobMatch(Tail(g), Tail(s))

\* C27: a saved file is rejected by the exclusion rule exactly when its
\* whole name matches one of the configured globs, '.' standing for itself
C27_GlobSemantics ==
    (Classified /\ tasks[1].uri.scheme = "file" /\ ~tasks[1].check.throws
        /\ tasks[1].uri.fsPath # ClassifyUntitledName) =>
        (tasks[1].check.reason[1] = "excluded"
            <=> \E k \in DOMAIN config.excludePatterns :
                    GlobMatch(config.excludePatterns[k], tasks[1].uri.fsPath))

\* the source encoding of conversion t is its target encoding by name, but
\* the content does not round-trip through it
StaleCase(t) ==
    /\ t.detected # None
    /\ normalizeEncoding(t.detected) = normalizeEncoding(t.tgt)
    /\ ~RoundTrips(t.raw, normalizeEncoding(t.tgt))

\* C28: the no-op shortcut is guarded by the round trip: a conversion whose
\* source and target names are equal after normalization but whose bytes do
\* not survive decoding and re-encoding is not skipped: it goes on to the
\* backup when backups are enabled, then decodes, encodes and writes the
\* file, and it ends as a conversion or as a failure with an error
C28_ShortcutGuarded ==
    \A i \in DOMAIN tasks :
        LET t == tasks[i]
        IN  (cmd = "convert" /\ StaleCase(t)) =>
                /\ t.cfg.createBackup =>
                        t.pc \in {"bkread", "bkstat", "bkwrite"} \/ t.bkReturned
                /\ ~t.cfg.createBackup => ~t.bkReturned /\ ~t.backupCreated
                /\ t.pc \in {"bkread", "bkstat", "bkwrite", "write", "done"}
                /\ t.pc = "done" =>
                        /\ ~t.result.skipped
                        /\ t.result.success =>
                                /\ t.wrote
                                /\ fs[t.uri.fsPath].data =
                                       IconvEncode(IconvDecode(t.raw, t.detected).text,
                                                   t.tgt).bytes
                        /\ ~t.result.success => t.result.error

C28_Witness ==
    \E i \in DOMAIN tasks :
        /\ cmd = "convert" /\ StaleCase(tasks[i])
        /\ tasks[i].pc = "done" /\ tasks[i].result.success
        /\ tasks[i].wrote /\ tasks[i].backupCreated

\* conversion t has returned a skip
SkippedCase(t) == cmd = "convert" /\ t.pc = "done" /\ t.result.skipped

\* C29: a skip leaves the files as they were: a conversion that returns
\* skipped = true, whether the classifier rejected the file, the user did not
\* confirm a file over 100MB or the file is already in the target encoding,
\* has written neither the file nor a backup; the rejection by the
\* classifier is a success = false that comes before any read of the file
C29_SkipsLeaveFiles ==
    \A i \in DOMAIN tasks :
        LET t == tasks[i]
        IN  SkippedCase(t) =>
                /\ ~t.wrote /\ ~t.bkReturned
                /\ ~t.result.backupCreated
                /\ fs = Last.fs0
                /\ t.result.skipReason \notin {<<"large">>, <<"already">>} =>
                        /\ ~t.result.success
                        /\ t.raw = <<>> /\ t.fileSize = 0 /\ t.detRead = None
                        /\ faults = 0

C29_Witness ==
    \E i \in DOMAIN tasks :
        /\ SkippedCase(tasks[i])
        /\ tasks[i].result.skipReason[1] = "excluded"
        /\ tasks[i].cfg.createBackup
        /\ Exists(fs, tasks[i].uri.fsPath)

\* createBackup was called by conversion t and has returned false
BackupFailedCase(t) ==
    cmd = "convert" /\ t.cfg.createBackup /\ t.bkReturned /\ ~t.backupCreated

\* C30: a failed backup does not abort the conversion: once createBackup has
\* returned false, convertFile decodes, encodes and calls writeFile on the
\* document; unless one of these fails in its turn, it returns success = true
\* with backupCreated = false and the document holds the encoded bytes, and
\* no backup file has appeared; with backups disabled createBackup is not
\* called, no backup file appears and backupCreated is false
C30_FailedBackupContinues ==
    \A i \in DOMAIN tasks :
        LET t == tasks[i]
        IN  /\ BackupFailedCase(t) =>
                /\ t.pc \in {"write", "done"}
                /\ Backups(fs) = Backups(Last.fs0)
                /\ \A q \in Backups(fs) : fs[q] = Last.fs0[q]
                /\ t.pc = "done" =>
                        /\ ~t.result.skipped
                        /\ t.codecFailed \/ t.wrote
                        /\ ~t.result.backupCreated
                        /\ t.result.success =>
                                fs[t.uri.fsPath].data = t.encoded
                        /\ ~t.result.success => t.result.error
            /\ (cmd = "convert" /\ ~t.cfg.createBackup) =>
                /\ ~t.bkReturned /\ ~t.backupCreated
                /\ t.pc \notin {"bkread", "bkstat", "bkwrite"}
                /\ Backups(fs) = Backups(Last.fs0)
                /\ t.pc = "done" => ~t.result.backupCreated

C30_Witness ==
    \E i \in DOMAIN tasks :
        /\ BackupFailedCase(tasks[i])
        /\ tasks[i].pc = "done" /\ tasks[i].result.success
        /\ tasks[i].wrote
        /\ fs[tasks[i].uri.fsPath].data # Last.pre

(***************************************************************************)
(* Properties of undo, of the failure results and of the batch results     *)
(***************************************************************************)

\* the candidates of findLatestBackup(filePath) that exist
ExistingCandidates(filePath) ==
    {k \in 0..LatestCandidates : Exists(fs, Candidate(filePath, k))}

\* findLatestBackup has returned to undoConversion, every stat having answered
FindReturned ==
    /\ cmd = "undo" /\ faults = 0
    /\ undo.pc = "read" \/ (undo.pc = "done" /\ undo.backupPath = <<>>)

\* C31: findLatestBackup returns, among the candidates P.bak, P.bak.1, ...,
\* P.bak.5 that exist, one whose modification time no other exceeds, and
\* returns no path exactly when none of the six exists
C31_LatestBackup ==
    FindReturned =>
        LET existing == ExistingCandidates(undo.filePath)
        IN  /\ undo.backupPath = <<>> <=> existing = {}
            /\ undo.backupPath # <<>> =>
                    \E k \in existing :
                        /\ undo.backupPath = Candidate(undo.filePath, k)
                        /\ \A j \in existing :
                               fs[Candidate(undo.filePath, j)].mtime
                                   <= fs[undo.backupPath].mtime

\* undoConversion has found no backup
NoBackupFound == cmd = "undo" /\ undo.pc = "done" /\ undo.backupPath = <<>>

\* C32: an undo without a backup fails cleanly: when findLatestBackup gives
\* no path, undoConversion returns false after an error message that says
\* so, and every file is as it was when the undo began; the steps that read,
\* write and delete are only taken with a backup path
C32_UndoWithoutBackup ==
    /\ NoBackupFound =>
            /\ ~undo.ret
            /\ undo.message = "No backup file found"
            /\ fs = undo.fs0
    /\ undo.pc \in {"read", "write", "delete"} => undo.backupPath # <<>>

C32_Witness ==
    /\ NoBackupFound
    /\ ~undo.ret
    /\ Last.task.result.backupCreated
    /\ fs[undo.filePath].data # Last.pre

\* the paths of the results that succeeded, were not skipped and have a
\* backup, in the order of the list
EligiblePaths ==
    LET keep == SelectSeq(batch.results,
                          LAMBDA r : r.success /\ ~r.skipped /\ r.backupCreated)
    IN  [k \in DOMAIN keep |-> keep[k].filePath]

\* C33: bulk undo eligibility: undoBatchConversion calls undoConversion for
\* the results with success, not skipped and backupCreated, and no others,
\* in list order, one at a time, and only after the user has confirmed; with
\* nothing eligible or without the confirmation no file is written or
\* deleted; at the end restored + failed is the number of eligible results
C33_BulkUndoEligibility ==
    (cmd = "undoall") =>
        /\ Len(batch.attempts) <= Len(EligiblePaths)
        /\ batch.attempts = SubSeq(EligiblePaths, 1, Len(batch.attempts))
        /\ batch.attempts # <<>> => batch.confirmed
        /\ (EligiblePaths = <<>> \/ ~batch.confirmed) =>
                fs = batch.fs0 /\ undo = NoUndo
        /\ (undo.pc # "none") =>
                /\ batch.pc = "await"
                /\ undo.filePath = batch.attempts[Len(batch.attempts)]
                /\ batch.undone + batch.failed = Len(batch.attempts) - 1
        /\ (batch.pc = "ended" /\ batch.confirmed) =>
                /\ batch.attempts = EligiblePaths
                /\ batch.undone + batch.failed = Len(EligiblePaths)
        /\ (batch.pc = "ended" /\ EligiblePaths = <<>>) =>
                batch.message = "No files to undo"

C33_Witness ==
    /\ cmd = "undoall" /\ batch.pc = "ended" /\ batch.confirmed
    /\ Len(batch.results) = 3 /\ Len(EligiblePaths) = 2
    /\ batch.undone = 1 /\ batch.failed = 1
    /\ fs # batch.fs0

\* C34: a failure result carries what was already known: when convertFile
\* fails after the source encoding was resolved, given by the caller or
\* detected, the originalEncoding of the result is that encoding, and
\* targetEncoding and fileSize are set
C34_FailureCarriesKnown ==
    \A i \in DOMAIN tasks :
        LET t == tasks[i]
        IN  (cmd = "convert" /\ t.pc = "done" /\ t.result.error /\ t.detected # None) =>
                /\ ~t.result.success
                /\ t.result.originalEncoding = t.detected
                /\ t.result.targetEncoding = t.tgt
                /\ t.result.fileSize = t.fileSize
                /\ t.result.fileSize # Undefined

\* the candidates that the batch has overwritten or made a backup of
Touched ==
    {p \in {batch.files[k].fsPath : k \in DOMAIN batch.files} :
        \/ Exists(batch.fs0, p) /\ fs[p] # batch.fs0[p]
        \/ \E q \in (DOMAIN fs) \ (DOMAIN batch.fs0) :
               q = BakPath(p) \/ \E n \in 1..ProbeCap : q = BakPathN(p, n)}

\* processMultipleFiles has returned a result for each of the paths ps
ReportedAll(ps) ==
    /\ batch.returned
    /\ ps \subseteq {batch.ret.results[k].filePath : k \in DOMAIN batch.ret.results}

ReportedUnderPositive ==
    (Touched # {} /\ batch.cfg.batchConcurrency >= 1)
        ~> (ReportedAll(Touched) \/ faults > 0 \/ batch.cancel)

\* C36: backup content matches what was converted: for every conversion that
\* reports backupCreated = true, the bytes that it stored in its backup file
\* are the bytes that this conversion read and decoded, under every
\* interleaving of the conversions of a wave, two submissions of one path in
\* one wave included
C36_BackupMatchesConverted ==
    \A i \in DOMAIN tasks :
        LET t == tasks[i]
        IN  (t.pc = "done" /\ t.result.backupCreated) =>
                /\ t.originalContent = t.raw
                /\ t.bkTime = fs[t.backupPath].mtime => fs[t.backupPath].data = t.raw

\* undoConversion has found a backup and restores from it
Restoring == cmd = "undo" /\ undo.backupPath # <<>>

\* C37: undo never loses the backup before the restore is done: undoConversion
\* deletes the backup file only after the original path has been overwritten
\* with the bytes of the backup; when reading the backup or writing the
\* original fails, the backup file still exists afterwards and undoConversion
\* returns false
C37_BackupOutlivesRestore ==
    /\ [][(Restoring /\ Exists(fs, undo.backupPath) /\ ~Exists(fs', undo.backupPath)) =>
              /\ undo.pc = "delete"
              /\ Exists(fs, undo.filePath)
              /\ fs[undo.filePath].data = fs[undo.backupPath].data]_vars
    /\ []((Restoring /\ undo.pc \in {"read", "write"}) => Exists(fs, undo.backupPath))
    /\ []((Restoring /\ undo.pc = "done") =>
              IF undo.ret
              THEN ~Exists(fs, undo.backupPath) /\ fs[undo.filePath].data = undo.content
              ELSE Exists(fs, undo.backupPath))

\* the write of the original has failed in an undo: the file is as it was,
\* the backup is there and undoConversion has returned false
C37_Witness ==
    /\ Restoring /\ undo.pc = "done" /\ ~undo.ret
    /\ undo.content # <<>>
    /\ fs = undo.fs0
    /\ fs[undo.filePath].data # fs[undo.backupPath].data

\* a conversion of the batch has rejected and processMultipleFiles with it
BatchRejected == batch.pc \in {"ended", "idle"} /\ ~batch.returned

\* the paths of the candidates and the results of the batch that has returned
\* for the path p
CandidatePaths == {batch.files[k].fsPath : k \in DOMAIN batch.files}

ResultsFor(p) == {k \in DOMAIN batch.ret.results : batch.ret.results[k].filePath = p}

\* C38: batch termination: for every concurrency of 1 and more and every
\* candidate list, when every conversion resolves processMultipleFiles
\* returns in the end; when 'Cancel' was never pressed the aggregate it returns
\* has processed = totalFiles = the length of results, and exactly one result
\* for every path among the candidates
C38_BatchTerminates ==
    /\ (batch.confirmed /\ batch.cfg.batchConcurrency >= 1)
           ~> (batch.returned \/ BatchRejected)
    /\ []((batch.returned /\ batch.confirmed /\ ~batch.cancel
              /\ batch.cfg.batchConcurrency >= 1) =>
              /\ batch.ret.processed = batch.ret.totalFiles
              /\ batch.ret.totalFiles = Len(batch.ret.results)
              /\ \A p \in CandidatePaths : Cardinality(ResultsFor(p)) = 1)

\* the same for the candidate lists that hold every path once
TerminatesOnDistinct ==
    /\ (batch.confirmed /\ batch.cfg.batchConcurrency >= 1)
           ~> (batch.returned \/ BatchRejected)
    /\ []((batch.returned /\ batch.confirmed /\ ~batch.cancel
              /\ batch.cfg.batchConcurrency >= 1 /\ NoDuplicates(batch.files)) =>
              /\ batch.ret.processed = batch.ret.totalFiles
              /\ batch.ret.totalFiles = Len(batch.ret.results)
              /\ Len(batch.ret.results) = Len(batch.files)
              /\ \A p \in CandidatePaths : Cardinality(ResultsFor(p)) = 1)

\* the results rs are for the first candidates, in the order of the candidates
PrefixOfCandidates(rs) ==
    /\ Len(rs) <= Len(batch.files)
    /\ \A k \in DOMAIN rs : rs[k].filePath = batch.files[k].fsPath

\* C39: results keep input order: the results of a batch are always a prefix
\* of the candidate list in candidate order, result i for candidate i, also
\* within a wave and whatever order its conversions complete in
C39_ResultsKeepOrder ==
    /\ PrefixOfCandidates(batch.results)
    /\ batch.returned => PrefixOfCandidates(batch.ret.results)

\* the first two candidates were converted in one wave, the second one was
\* written before the first, and the results are returned
C39_Witness ==
    /\ batch.returned /\ Len(batch.ret.results) >= 2
    /\ batch.waves # <<>> /\ batch.waves[1] >= 2
    /\ \A k \in 1..2 : /\ batch.ret.results[k].success
                        /\ ~batch.ret.results[k].skipped
    /\ fs[batch.files[2].fsPath].mtime < fs[batch.files[1].fsPath].mtime

====
